---------------------------- MODULE Spec2Model ----------------------------
(***************************************************************************)
(* A model of the promise layer of indexeddb-util over one object store.   *)
(*                                                                         *)
(* The store is the 'users' store of the test configuration: key path      *)
(* 'id' with autoIncrement, a unique index 'email' and a non-unique index  *)
(* 'age'.  The host (IndexedDB) is modelled by what its requests do to the *)
(* store and by which event (success / error) it fires for each request;   *)
(* every handler the library registers is one action.                      *)
(*                                                                         *)
(* A request error whose event is not cancelled aborts the transaction of  *)
(* the request (README.md "Transaction will auto-abort on error"); none of *)
(* the library's error handlers calls preventDefault().                    *)
(***************************************************************************)
EXTENDS Integers, Sequences, FiniteSets, TLC

\* ------------------------------------------------------------------ bounds
MaxKey == 3
MaxBulk == 2
MaxOffset == 2
MaxLimit == 2
MaxVersion == 2
MaxSeed == 1
MaxCalls == 3
MaxOpen == 2

\* ------------------------------------------------------------ record values
NoKey == 0
Keys == 1..MaxKey
Emails == {1, 2, 3}
Ages == {25, 30}
\* A record handed to the library: id = NoKey stands for "no id field".
Records == [id : {NoKey} \cup Keys, email : Emails, age : {30}]
\* A record as the store holds it.
StoredRecords == [id : Keys, email : Emails, age : Ages]
\* JavaScript's undefined, as the result of a get that matches nothing.
Undefined == [id |-> NoKey, email |-> 0, age |-> 0]

\* ------------------------------------------------------------- store (host)
KeySet(objs) == {r.id : r \in objs}

RECURSIVE SortByKey(_)
\* IDBObjectStore.getAll(): every record, in ascending primary-key order.
SortByKey(objs) ==
  IF objs = {} THEN <<>>
  ELSE LET m == CHOOSE r \in objs : \A q \in objs : r.id <= q.id
       IN  <<m>> \o SortByKey(objs \ {m})

\* IDBObjectStore.get(key): the record stored under key, or undefined.
StoreGet(objs, key) ==
  IF key \in KeySet(objs) THEN CHOOSE r \in objs : r.id = key ELSE Undefined

\* The key a record is stored under: its 'id', or the key generator's number.
KeyFor(data, gen) == IF data.id = NoKey THEN gen ELSE data.id

\* The key generator after a record was stored under key.
GenAfter(key, gen) == IF key >= gen THEN key + 1 ELSE gen

\* Another record holds data's email: the unique index 'email' refuses it.
EmailClash(objs, data, key) ==
  \E r \in objs : r.email = data.email /\ r.id # key

\* IDBObjectStore.add(data) succeeds: new primary key, unique index intact.
AddOk(objs, gen, data) ==
  /\ KeyFor(data, gen) \notin KeySet(objs)
  /\ ~EmailClash(objs, data, KeyFor(data, gen))

\* IDBObjectStore.put(data) succeeds: unique index intact.
PutOk(objs, gen, data) == ~EmailClash(objs, data, KeyFor(data, gen))

\* The store after data is stored under its key (replacing what was there).
StoreWith(objs, gen, data) ==
  LET key == KeyFor(data, gen)
  IN  {r \in objs : r.id # key} \cup {[data EXCEPT !.id = key]}

\* IDBObjectStore.delete(key).
StoreWithout(objs, key) == {r \in objs : r.id # key}

\* ------------------------------------------------------------------ errors
IndexedDBError(msg) == [name |-> "IndexedDBError", message |-> msg]
NoError == [name |-> "", message |-> ""]

\* -------------------------------------------------------------------- state
VARIABLES
  objs,       \* the records of the store, as the open transaction sees them
  keyGen,     \* the store's key generator
  tx,         \* "none" | "active": the transaction the store handle belongs to
  committed,  \* the store and key generator when the transaction was opened
  op,         \* the record operation called last: [name, key, data, arr]
  pre,        \* the store when the operation was called
  pc,         \* which request of the operation is pending; "idle", "done"
  promise,    \* "none" | "pending" | "resolved" | "rejected"
  value,      \* what the promise resolved with
  error,      \* what the promise rejected with
  hostError,  \* the host has fired an error event at the operation
  deleteIssued,  \* deleteObjectData: store.delete was called
  deletedObject, \* deleteObjectData: the record fetched before the delete
  keyPath,    \* updateObjectData: the name of the field to match
  cursorOpened,  \* updateObjectData: store.openCursor was called
  found,      \* updateObjectData: the cursor has come upon the target
  thrown,     \* a handler of the operation was left by an exception
  results,    \* bulkAddObjectData / queryObjectData: the array being filled
  completed,  \* bulkAddObjectData: the number of success events handled
  pending,    \* bulkAddObjectData: the inputs whose add request is pending
  options,    \* queryObjectData: [index, direction, limit, offset]
  skipped,    \* queryObjectData: records passed over for the offset
  counted,    \* queryObjectData: records collected
  cursor,     \* queryObjectData: the position of the host's cursor
  db,         \* the database the host keeps: [version, stores]
  dbBefore,   \* the database when createDB was called
  call,       \* createDB: the arguments [version, stores] of the call
  repeat,     \* createDB: the call before resolved and had these arguments
  open,       \* createDB: which event of the open request or seeding is due
  dbPromise,  \* createDB: the promise, [state, error]
  upgraded,   \* createDB: onupgradeneeded has run for the call
  seedQueue,  \* createDB: storesWithData, from the store being seeded on
  seedAdds,   \* createDB: the seed records handed to objectStore.add
  supported,  \* isIndexedDBSupported(): the host has the storage API
  connections,   \* the handles of the database that are open
  fired,      \* createDB / openDB: the events the host has fired for the call
  seeded,     \* createDB: the stores whose seeding transaction has completed
  retry,      \* createDB: what the call before, of these arguments, inserted
              \* before its seeding failed
  result,     \* createDB / openDB: request.result, the handle of the call
  scope,      \* transaction handler: the store names of its transaction
  txEvent,    \* the event fired last at the transaction, "" for none
  promises,   \* the promises getStore and commit have returned, in order
  oncomplete, \* tx.oncomplete: the promise its callback settles, 0 for none
  onerror,    \* tx.onerror, likewise
  onabort,    \* tx.onabort, likewise
  self_db,    \* IndexedDBUtil: this.db, a handle or NoHandle for null
  outer,      \* IndexedDBUtil: the method called last and its promise
  stage,      \* IndexedDBUtil: the await the method is suspended at
  ret,        \* IndexedDBUtil: what getDB, transaction or close did last
  adds        \* IndexedDBUtil.add: the calls in flight together, the order
              \* of their transactions, and the continuations queued

storeVars == <<objs, keyGen>>
txVars == <<tx, committed>>
callVars == <<op, pre>>
promiseVars == <<promise, value, error>>
updVars == <<keyPath, cursorOpened, found, thrown>>
crudVars == <<deleteIssued, deletedObject, updVars>>
bulkVars == <<results, completed, pending>>
queryVars == <<options, skipped, counted, cursor>>
dbVars == <<db, dbBefore, call, repeat, open, dbPromise, upgraded, seedQueue,
            seedAdds, supported, connections, fired, seeded, retry,
            result>>
\* What the record operations never touch.
handlerVars == <<scope, txEvent, promises, oncomplete, onerror, onabort>>
utilVars == <<self_db, outer, stage, ret, adds>>
outerVars == <<dbVars, handlerVars, utilVars>>
\* The state of the record operations.
opVars == <<callVars, pc, promiseVars, hostError, crudVars, bulkVars,
            queryVars>>
vars == <<storeVars, txVars, callVars, pc, promiseVars, hostError, crudVars,
          bulkVars, queryVars, outerVars>>

\* An option the caller left out (limit?: number).
NoLimit == -1
\* KeyRange.bound(lower, upper, lowerOpen, upperOpen).
KeyRange_bound(lower, upper, lowerOpen, upperOpen) ==
  [lower |-> lower, upper |-> upper, lowerOpen |-> lowerOpen,
   upperOpen |-> upperOpen]
\* IDBKeyRange.includes(key).
Includes(range, key) ==
  /\ IF range.lowerOpen THEN key > range.lower ELSE key >= range.lower
  /\ IF range.upperOpen THEN key < range.upper ELSE key <= range.upper

\* No keyRange property in the options the caller hands over.
NoRange == KeyRange_bound(NoLimit, NoLimit, FALSE, FALSE)
NoOptions == [index |-> "", direction |-> "next", limit |-> NoLimit,
              offset |-> 0, keyRange |-> NoRange]

NoOp == [name |-> "none", key |-> NoKey, data |-> Undefined, arr |-> <<>>]
Call(n, k, d, a) == [name |-> n, key |-> k, data |-> d, arr |-> a]

\* No operation has been called: the state of every operation's locals.
Fresh ==
  /\ op = NoOp
  /\ pc = "idle"
  /\ promise = "none"
  /\ value = <<>>
  /\ error = NoError
  /\ hostError = FALSE
  /\ deleteIssued = FALSE
  /\ deletedObject = Undefined
  /\ keyPath = ""
  /\ cursorOpened = FALSE
  /\ found = FALSE
  /\ thrown = FALSE
  /\ results = <<>>
  /\ completed = 0
  /\ pending = {}
  /\ options = NoOptions
  /\ skipped = 0
  /\ counted = 0
  /\ cursor = 0

\* The locals of the operations go back to that state.
Reset ==
  /\ op' = NoOp
  /\ pc' = "idle"
  /\ promise' = "none"
  /\ value' = <<>>
  /\ error' = NoError
  /\ hostError' = FALSE
  /\ deleteIssued' = FALSE
  /\ deletedObject' = Undefined
  /\ keyPath' = ""
  /\ cursorOpened' = FALSE
  /\ found' = FALSE
  /\ thrown' = FALSE
  /\ results' = <<>>
  /\ completed' = 0
  /\ pending' = {}
  /\ options' = NoOptions
  /\ skipped' = 0
  /\ counted' = 0
  /\ cursor' = 0

\* -------------------------------------------------- the database (host)
StoreNames == {"users", "products"}
KeyPaths == {"id", "email"}
IndexNames == {"email", "age"}
Versions == 1..MaxVersion

\* A store name the database does not have.
NoStore == [exists |-> FALSE, keyPath |-> "", indexNames |-> {},
            records |-> {}, keyGen |-> 1]
\* No database of the name: the host reports version 0.
NoDatabase == [version |-> 0, stores |-> [n \in StoreNames |-> NoStore]]
NoCall == [fn |-> "", version |-> 0, stores |-> <<>>]
NoPromise == [state |-> "none", error |-> ""]

\* What no call has inserted.
NoRecords == [n \in StoreNames |-> {}]
\* this.db = null.
NoHandle == 0
NoOuter == [fn |-> "", state |-> "none", error |-> ""]
NoReturn == [fn |-> "", threw |-> "", value |-> NoHandle]
\* The calls of add made together: at most MaxAdds.
MaxAdds == 2
Callers == 1..MaxAdds
\* No call of add: no promise, no transaction, no request.
NoAdd ==
  [state |-> "none", stage |-> "none", data |-> Undefined, tx |-> "none",
   objs |-> {}, keyGen |-> 0, result |-> <<>>, error |-> ""]
NoAdds == [call |-> [c \in Callers |-> NoAdd], ran |-> <<>>, jobs |-> <<>>]

\* No createDB or openDB has been called: there is no database.
Unopened ==
  /\ connections = {}
  /\ fired = {}
  /\ seeded = {}
  /\ retry = NoRecords
  /\ result = NoHandle
  /\ db = NoDatabase
  /\ dbBefore = NoDatabase
  /\ call = NoCall
  /\ repeat = FALSE
  /\ open = "none"
  /\ dbPromise = NoPromise
  /\ upgraded = FALSE
  /\ seedQueue = <<>>
  /\ seedAdds = <<>>

\* No createDB has been called on the database the record operations use,
\* in a host that has the storage API.
FreshDb == supported = TRUE /\ Unopened

\* No IndexedDBUtil has been initialized.
FreshUtil ==
  /\ self_db = NoHandle
  /\ outer = NoOuter
  /\ stage = "none"
  /\ ret = NoReturn
  /\ adds = NoAdds

\* No transaction handler has been made.
FreshHandler ==
  /\ scope = {}
  /\ txEvent = ""
  /\ promises = <<>>
  /\ oncomplete = 0
  /\ onerror = 0
  /\ onabort = 0

\* createDB of the configuration without seed data: an empty store.
Init ==
  /\ objs = {}
  /\ keyGen = 1
  /\ tx = "none"
  /\ committed = [objs |-> {}, keyGen |-> 1]
  /\ pre = {}
  /\ Fresh
  /\ FreshDb
  /\ FreshHandler
  /\ FreshUtil

\* ---------------------------------------------------------------- promises
\* resolve(v) / reject(e) settle a pending promise and are no-ops afterwards.
Resolve(v) ==
  IF promise = "pending"
  THEN promise' = "resolved" /\ value' = v /\ UNCHANGED error
  ELSE UNCHANGED promiseVars

Reject(e) ==
  IF promise = "pending"
  THEN promise' = "rejected" /\ error' = e /\ UNCHANGED value
  ELSE UNCHANGED promiseVars

\* ------------------------------------------------------------ transactions
\* transaction(db, stores, mode): a new read-write transaction on the store.
\* The promises of the operations of earlier transactions are dropped.
transaction ==
  /\ tx = "none"
  /\ pc \in {"idle", "done"}
  /\ tx' = "active"
  /\ committed' = [objs |-> objs, keyGen |-> keyGen]
  /\ pre' = objs
  /\ Reset
  /\ UNCHANGED <<storeVars, outerVars>>

\* The host commits a transaction that has no request pending.
TxComplete ==
  /\ tx = "active"
  /\ pc \in {"idle", "done"}
  /\ tx' = "none"
  /\ UNCHANGED <<storeVars, committed, callVars, pc, promiseVars, hostError,
                 crudVars, bulkVars, queryVars, outerVars>>

\* The host aborts the transaction: every write since it was opened is undone.
Abort ==
  /\ tx' = "none"
  /\ objs' = committed.objs
  /\ keyGen' = committed.keyGen
  /\ UNCHANGED committed

\* An error event that no handler cancels: the handler's reject, then the
\* abort of the transaction, which drops its other requests.
ErrorEvent(e) ==
  /\ Reject(e)
  /\ hostError' = TRUE
  /\ Abort
  /\ pc' = "done"

\* An operation is called on the store handle of the open transaction, no
\* other operation being in flight.
Begin(c, p) ==
  /\ tx = "active"
  /\ pc \in {"idle", "done"}
  /\ op' = c
  /\ pre' = objs
  /\ pc' = p
  /\ promise' = "pending"
  /\ value' = <<>>
  /\ error' = NoError
  /\ hostError' = FALSE
  /\ deleteIssued' = FALSE
  /\ deletedObject' = Undefined
  /\ keyPath' = ""
  /\ cursorOpened' = FALSE
  /\ found' = FALSE
  /\ thrown' = FALSE
  /\ UNCHANGED <<storeVars, txVars>>

\* ------------------------------------------------------------ addObjectData
\* addObjectData(store, data): request = store.add(data).
addObjectData(data) ==
  /\ KeyFor(data, keyGen) <= MaxKey
  /\ Begin(Call("add", NoKey, data, <<>>), "add")
  /\ UNCHANGED <<bulkVars, queryVars, outerVars>>

\* request.onsuccess: the record is stored; getAllObjectData(store) is issued.
addObjectData_onsuccess ==
  /\ pc = "add"
  /\ AddOk(objs, keyGen, op.data)
  /\ objs' = StoreWith(objs, keyGen, op.data)
  /\ keyGen' = GenAfter(KeyFor(op.data, keyGen), keyGen)
  /\ pc' = "add_getAll"
  /\ UNCHANGED <<txVars, callVars, promiseVars, hostError, crudVars,
                 bulkVars, queryVars, outerVars>>

\* A variant whose error handler is missing: the promise is left pending.
addObjectData_onerror_unhandled ==
  /\ pc = "add"
  /\ hostError' = TRUE
  /\ Abort
  /\ pc' = "done"
  /\ UNCHANGED <<callVars, promiseVars, crudVars, bulkVars, queryVars,
                 outerVars>>

\* request.onerror: a constraint violation, or any other failure of the host.
addObjectData_onerror ==
  /\ pc = "add"
  /\ ErrorEvent(IndexedDBError("Failed to add data to store"))
  /\ UNCHANGED <<callVars, crudVars, bulkVars, queryVars, outerVars>>

\* A variant that resolves with the records fetched before the insertion.
addObjectData_getAll_stale ==
  /\ pc = "add_getAll"
  /\ Resolve(SortByKey(pre))
  /\ pc' = "done"
  /\ UNCHANGED <<storeVars, txVars, callVars, hostError, crudVars, bulkVars,
                 queryVars, outerVars>>

\* getAllObjectData's request.onsuccess inside addObjectData: resolve(allData).
addObjectData_getAll_onsuccess ==
  /\ pc = "add_getAll"
  /\ Resolve(SortByKey(objs))
  /\ pc' = "done"
  /\ UNCHANGED <<storeVars, txVars, callVars, hostError, crudVars, bulkVars,
                 queryVars, outerVars>>

\* getAllObjectData's request.onerror inside addObjectData: reject(error).
addObjectData_getAll_onerror ==
  /\ pc = "add_getAll"
  /\ ErrorEvent(IndexedDBError("Failed to retrieve all data"))
  /\ UNCHANGED <<callVars, crudVars, bulkVars, queryVars, outerVars>>

\* ------------------------------------------------------------ putObjectData
\* A variant that resolves with the record's own id field.
PutResult_dataId(data, gen) == data.id

\* request.result of a put: the key the record was stored under.
PutResult(data, gen) == KeyFor(data, gen)

\* putObjectData(store, data): request = store.put(data).
putObjectData(data) ==
  /\ KeyFor(data, keyGen) <= MaxKey
  /\ Begin(Call("put", NoKey, data, <<>>), "put")
  /\ UNCHANGED <<bulkVars, queryVars, outerVars>>

\* request.onsuccess: resolve(request.result).
putObjectData_onsuccess ==
  /\ pc = "put"
  /\ PutOk(objs, keyGen, op.data)
  /\ objs' = StoreWith(objs, keyGen, op.data)
  /\ keyGen' = GenAfter(KeyFor(op.data, keyGen), keyGen)
  /\ Resolve(PutResult(op.data, keyGen))
  /\ pc' = "done"
  /\ UNCHANGED <<txVars, callVars, hostError, crudVars, bulkVars, queryVars,
                 outerVars>>

\* request.onerror.
putObjectData_onerror ==
  /\ pc = "put"
  /\ ErrorEvent(IndexedDBError("Failed to put data"))
  /\ UNCHANGED <<callVars, crudVars, bulkVars, queryVars, outerVars>>

\* ------------------------------------------------------------ getObjectData
\* The record a get reads back: when the get asks for the key a put has just
\* resolved with, the record that was put (kept as op.data), else none.
PutBefore(key) ==
  IF op.name = "put" /\ promise = "resolved" /\ value = key
  THEN op.data ELSE Undefined

\* getObjectData(store, key): request = store.get(key).
getObjectData(key) ==
  /\ Begin(Call("get", key, PutBefore(key), <<>>), "get")
  /\ UNCHANGED <<bulkVars, queryVars, outerVars>>

\* A variant that rejects when nothing is stored under the key.
getObjectData_onsuccess_strict ==
  /\ pc = "get"
  /\ IF StoreGet(objs, op.key) = Undefined
     THEN Reject(IndexedDBError("Not found"))
     ELSE Resolve(StoreGet(objs, op.key))
  /\ pc' = "done"
  /\ UNCHANGED <<storeVars, txVars, callVars, hostError, crudVars, bulkVars,
                 queryVars, outerVars>>

\* request.onsuccess: resolve(request.result).
getObjectData_onsuccess ==
  /\ pc = "get"
  /\ Resolve(StoreGet(objs, op.key))
  /\ pc' = "done"
  /\ UNCHANGED <<storeVars, txVars, callVars, hostError, crudVars, bulkVars,
                 queryVars, outerVars>>

\* request.onerror.
getObjectData_onerror ==
  /\ pc = "get"
  /\ ErrorEvent(IndexedDBError("Failed to retrieve data"))
  /\ UNCHANGED <<callVars, crudVars, bulkVars, queryVars, outerVars>>

\* --------------------------------------------------------- deleteObjectData
NotFound == IndexedDBError("Object with key not found in store")

\* A variant that tests for null, which a get never yields.
ObjectMissing_null(object) == FALSE

\* deletedObject === undefined.
ObjectMissing(object) == object = Undefined

\* A variant that reads the record back after the delete: undefined.
DeleteResult_fetchedAfter(object, allData) == <<Undefined, allData>>

\* [deletedObject, allData].
DeleteResult(object, allData) == <<object, allData>>

\* deleteObjectData(store, key): getObjectData(store, key) is issued first.
deleteObjectData(key) ==
  /\ Begin(Call("delete", key, Undefined, <<>>), "del_get")
  /\ UNCHANGED <<bulkVars, queryVars, outerVars>>

\* The get succeeded and its .then callback runs: reject when nothing is
\* stored under the key, else deleteRequest = store.delete(key).
deleteObjectData_then ==
  /\ pc = "del_get"
  /\ deletedObject' = StoreGet(objs, op.key)
  /\ IF ObjectMissing(deletedObject')
     THEN /\ Reject(NotFound)
          /\ pc' = "done"
          /\ UNCHANGED deleteIssued
     ELSE /\ deleteIssued' = TRUE
          /\ pc' = "del_delete"
          /\ UNCHANGED promiseVars
  /\ UNCHANGED <<storeVars, txVars, callVars, hostError, updVars, bulkVars,
                 queryVars, outerVars>>

\* The get failed and the .catch callback runs.
deleteObjectData_catch ==
  /\ pc = "del_get"
  /\ ErrorEvent(IndexedDBError("Failed to retrieve object before deletion"))
  /\ UNCHANGED <<callVars, crudVars, bulkVars, queryVars, outerVars>>

\* deleteRequest.onsuccess: the record is gone; getAllObjectData is issued.
deleteRequest_onsuccess ==
  /\ pc = "del_delete"
  /\ objs' = StoreWithout(objs, op.key)
  /\ pc' = "del_getAll"
  /\ UNCHANGED <<keyGen, txVars, callVars, promiseVars, hostError, crudVars,
                 bulkVars, queryVars, outerVars>>

\* deleteRequest.onerror.
deleteRequest_onerror ==
  /\ pc = "del_delete"
  /\ ErrorEvent(IndexedDBError("Delete operation failed"))
  /\ UNCHANGED <<callVars, crudVars, bulkVars, queryVars, outerVars>>

\* getAllObjectData resolved: resolve([deletedObject, allData]).
deleteObjectData_getAll_onsuccess ==
  /\ pc = "del_getAll"
  /\ Resolve(DeleteResult(deletedObject, SortByKey(objs)))
  /\ pc' = "done"
  /\ UNCHANGED <<storeVars, txVars, callVars, hostError, crudVars, bulkVars,
                 queryVars, outerVars>>

\* getAllObjectData rejected: reject(error).
deleteObjectData_getAll_onerror ==
  /\ pc = "del_getAll"
  /\ ErrorEvent(IndexedDBError("Failed to retrieve all data"))
  /\ UNCHANGED <<callVars, crudVars, bulkVars, queryVars, outerVars>>

\* --------------------------------------------------------- getAllObjectData
\* getAllObjectData(store): request = store.getAll().
getAllObjectData ==
  /\ Begin(Call("getAll", NoKey, Undefined, <<>>), "getAll")
  /\ UNCHANGED <<bulkVars, queryVars, outerVars>>

\* request.onsuccess: resolve(request.result).
getAllObjectData_onsuccess ==
  /\ pc = "getAll"
  /\ Resolve(SortByKey(objs))
  /\ pc' = "done"
  /\ UNCHANGED <<storeVars, txVars, callVars, hostError, crudVars, bulkVars,
                 queryVars, outerVars>>

\* request.onerror.
getAllObjectData_onerror ==
  /\ pc = "getAll"
  /\ ErrorEvent(IndexedDBError("Failed to retrieve all data"))
  /\ UNCHANGED <<callVars, crudVars, bulkVars, queryVars, outerVars>>

\* ---------------------------------------------------------- countObjectData
\* The key ranges handed to count: none, or KeyRange.bound(1, 2).
CountRanges == {NoRange, KeyRange_bound(1, 2, FALSE, FALSE)}

\* IDBObjectStore.count(keyRange).
StoreCountIn(S, range) ==
  Cardinality({r \in S : range = NoRange \/ Includes(range, r.id)})

\* countObjectData(store, keyRange): request = store.count(keyRange).
countObjectData(keyRange) ==
  /\ Begin(Call("count", NoKey, Undefined, <<>>), "count")
  /\ options' = [NoOptions EXCEPT !.keyRange = keyRange]
  /\ UNCHANGED <<bulkVars, skipped, counted, cursor, outerVars>>

\* request.onsuccess: resolve(request.result).
countObjectData_onsuccess ==
  /\ pc = "count"
  /\ Resolve(StoreCountIn(objs, options.keyRange))
  /\ pc' = "done"
  /\ UNCHANGED <<storeVars, txVars, callVars, hostError, crudVars, bulkVars,
                 queryVars, outerVars>>

\* request.onerror.
countObjectData_onerror ==
  /\ pc = "count"
  /\ ErrorEvent(IndexedDBError("Count failed"))
  /\ UNCHANGED <<callVars, crudVars, bulkVars, queryVars, outerVars>>

Next ==
  \/ transaction
  \/ TxComplete
  \/ \E d \in Records : addObjectData(d)
  \/ addObjectData_onsuccess
  \/ addObjectData_onerror
  \/ addObjectData_getAll_onsuccess
  \/ addObjectData_getAll_onerror
  \/ \E d \in Records : putObjectData(d)
  \/ putObjectData_onsuccess
  \/ putObjectData_onerror
  \/ \E k \in Keys : getObjectData(k)
  \/ getObjectData_onsuccess
  \/ getObjectData_onerror
  \/ \E k \in Keys : deleteObjectData(k)
  \/ deleteObjectData_then
  \/ deleteObjectData_catch
  \/ deleteRequest_onsuccess
  \/ deleteRequest_onerror
  \/ deleteObjectData_getAll_onsuccess
  \/ deleteObjectData_getAll_onerror

Spec == Init /\ [][Next]_vars

\* -------------------------------------------------------- bulkAddObjectData
BulkRecords == {r \in Records : r.email # 3}
BulkArrays == UNION {[1..n -> BulkRecords] : n \in 0..MaxBulk}

Max2(a, b) == IF a >= b THEN a ELSE b
Min2(a, b) == IF a <= b THEN a ELSE b
MaxOf(S) == IF S = {} THEN 0 ELSE CHOOSE m \in S : \A x \in S : x <= m

\* Every key the adds of arr can be given lies within Keys.
BulkFits(arr, gen) ==
  LET auto == {i \in DOMAIN arr : arr[i].id = NoKey}
      top  == MaxOf({arr[i].id : i \in DOMAIN arr})
  IN  auto = {} \/ Max2(gen, top + 1) + Cardinality(auto) - 1 <= MaxKey

\* A variant that appends the key: results.push(request.result).
BulkStore_push(res, index, done, key) == [res EXCEPT ![done + 1] = key]

\* results[index] = request.result, after done success events.
BulkStore(res, index, done, key) == [res EXCEPT ![index] = key]

\* bulkAddObjectData(store, dataArray) on the store handle of a new
\* transaction: resolve([]) for an empty array, else one store.add(data)
\* request per element, all placed at once.
bulkAddObjectData(arr) ==
  /\ tx = "active" /\ pc = "idle"
  /\ BulkFits(arr, keyGen)
  /\ op' = Call("bulkAdd", NoKey, Undefined, arr)
  /\ pre' = objs
  /\ error' = NoError
  /\ hostError' = FALSE
  /\ value' = <<>>
  /\ results' = [i \in DOMAIN arr |-> NoKey]
  /\ completed' = 0
  /\ IF Len(arr) = 0
     THEN promise' = "resolved" /\ pc' = "done" /\ pending' = {}
     ELSE promise' = "pending" /\ pc' = "bulk" /\ pending' = DOMAIN arr
  /\ UNCHANGED <<storeVars, txVars, crudVars, queryVars, outerVars>>

\* The host fires the events of a transaction's requests in request order.
InOrder(i) == \A j \in pending : i <= j

\* request.onsuccess of the add of element index: results[index] =
\* request.result; completed++; resolve(results) after the last one.
bulkAdd_onsuccess(index) ==
  /\ pc = "bulk"
  /\ index \in pending
  /\ AddOk(objs, keyGen, op.arr[index])
  /\ objs' = StoreWith(objs, keyGen, op.arr[index])
  /\ keyGen' = GenAfter(KeyFor(op.arr[index], keyGen), keyGen)
  /\ results' = BulkStore(results, index, completed,
                          KeyFor(op.arr[index], keyGen))
  /\ completed' = completed + 1
  /\ pending' = pending \ {index}
  /\ IF completed' = Len(op.arr)
     THEN Resolve(results') /\ pc' = "done"
     ELSE UNCHANGED <<promiseVars, pc>>
  /\ UNCHANGED <<txVars, callVars, hostError, crudVars, queryVars,
                 outerVars>>

\* A variant whose handler cancels the error event (preventDefault): the
\* transaction goes on and the other adds still run.
bulkAdd_onerror_cancelled(index) ==
  /\ pc = "bulk"
  /\ index \in pending
  /\ Reject(IndexedDBError("Failed to add item at index"))
  /\ hostError' = TRUE
  /\ pending' = pending \ {index}
  /\ pc' = IF pending' = {} THEN "done" ELSE "bulk"
  /\ UNCHANGED <<storeVars, txVars, callVars, crudVars, results, completed,
                 queryVars, outerVars>>

\* request.onerror of the add of element index: reject.  The event is not
\* cancelled, so the transaction aborts and its other requests are dropped.
bulkAdd_onerror(index) ==
  /\ pc = "bulk"
  /\ index \in pending
  /\ ErrorEvent(IndexedDBError("Failed to add item at index"))
  /\ pending' = {}
  /\ UNCHANGED <<callVars, crudVars, results, completed, queryVars,
                 outerVars>>

NextBulk ==
  \/ transaction
  \/ TxComplete
  \/ \E arr \in BulkArrays : bulkAddObjectData(arr)
  \/ \E i \in pending : InOrder(i) /\ bulkAdd_onsuccess(i)
  \/ \E i \in pending : InOrder(i) /\ bulkAdd_onerror(i)

\* The same, with the events of the pending adds arriving in any order.
NextBulkAnyOrder ==
  \/ transaction
  \/ TxComplete
  \/ \E arr \in BulkArrays : bulkAddObjectData(arr)
  \/ \E i \in pending : bulkAdd_onsuccess(i)
  \/ \E i \in pending : bulkAdd_onerror(i)

SpecBulk == Init /\ [][NextBulk]_vars
SpecBulkAnyOrder == Init /\ [][NextBulkAnyOrder]_vars

\* ---------------------------------------------------------- queryObjectData
\* The key a record has in the traversal source: the primary key, or the
\* record's value at the key path of the named index.
SourceKey(r, index) ==
  CASE index = "email" -> r.email
    [] index = "age"   -> r.age
    [] OTHER           -> r.id

\* The order of a source: by key, records of equal key by primary key.
Before(a, b, index) ==
  \/ SourceKey(a, index) < SourceKey(b, index)
  \/ SourceKey(a, index) = SourceKey(b, index) /\ a.id < b.id

RECURSIVE Ascending(_, _)
Ascending(S, index) ==
  IF S = {} THEN <<>>
  ELSE LET m == CHOOSE r \in S : \A q \in S \ {r} : Before(r, q, index)
       IN  <<m>> \o Ascending(S \ {m}, index)

Reverse(seq) == [i \in 1..Len(seq) |-> seq[Len(seq) + 1 - i]]

\* Of the records of equal key, the one of lowest primary key.
FirstOfKey(S, index) ==
  {r \in S : \A q \in S :
     SourceKey(q, index) = SourceKey(r, index) => r.id <= q.id}

\* source.openCursor(undefined, direction): the records the cursor lands on.
Traversal(S, index, direction) ==
  CASE direction = "next"       -> Ascending(S, index)
    [] direction = "prev"       -> Reverse(Ascending(S, index))
    [] direction = "nextunique" -> Ascending(FirstOfKey(S, index), index)
    [] direction = "prevunique" ->
         Reverse(Ascending(FirstOfKey(S, index), index))

\* JavaScript's truthiness of the limit option: set, and not 0.
Truthy(limit) == limit # NoLimit /\ limit # 0

\* A variant that stops one record late: counted > limit.
LimitReached_late(limit, count) == Truthy(limit) /\ count > limit

\* limit && counted >= limit.
LimitReached(limit, count) == Truthy(limit) /\ count >= limit

\* A variant that hands over what was collected: resolve(results).
QueryFailed_partial == Resolve(results)

\* The body of request.onerror: reject(new IndexedDBError(...)).
QueryFailed == Reject(IndexedDBError("Query failed"))

\* The name of an index the store does not have.
MissingIndex == "missing"
Indexes == {"", "email", "age", MissingIndex}
Directions == {"next", "nextunique", "prev", "prevunique"}
\* The key range of README.md's index query, over the ages of the model:
\* KeyRange.bound(18, 30, false, true), that is >= 18 && < 30.
AgeRange == KeyRange_bound(18, 30, FALSE, TRUE)
\* The options a caller hands over; a keyRange comes with the index 'age'.
QueryOptions ==
  {o \in [index : Indexes, direction : Directions,
          limit : {NoLimit} \cup (0..MaxLimit), offset : 0..MaxOffset,
          keyRange : {NoRange, AgeRange}] :
     /\ o.keyRange # NoRange => o.index = "age"
     /\ o.index = MissingIndex =>
          (o.direction = "next" /\ o.limit = NoLimit /\ o.offset = 0)}

\* A variant in which store.index(index) hands out a source for any name.
IndexFound_anyName(index) == TRUE

\* index ? store.index(index) : store does not throw: no index is named, or
\* the store has an index of the name.
IndexFound(index) == index = "" \/ index \in IndexNames

\* queryObjectData(store, options) on the store handle of a new transaction:
\* request = source.openCursor(undefined, direction), or, store.index(index)
\* having thrown, the catch block's reject(new IndexedDBError(...)).  Of the
\* options, index, direction, limit and offset are read.
queryObjectData(o) ==
  /\ tx = "active" /\ pc = "idle"
  /\ op' = Call("query", NoKey, Undefined, <<>>)
  /\ options' = o
  /\ pre' = objs
  /\ IF IndexFound(o.index)
     THEN /\ pc' = "query"
          /\ promise' = "pending"
          /\ error' = NoError
     ELSE /\ pc' = "done"
          /\ promise' = "rejected"
          /\ error' = IndexedDBError("No such index")
  /\ value' = <<>>
  /\ hostError' = FALSE
  /\ results' = <<>>
  /\ skipped' = 0
  /\ counted' = 0
  /\ cursor' = 1
  /\ UNCHANGED <<storeVars, txVars, crudVars, completed, pending,
                 outerVars>>

\* A variant that pushes cursor.value before it tests the offset.
queryObjectData_onsuccess_pushFirst ==
  /\ pc = "query"
  /\ LET t == Traversal(objs, options.index, options.direction)
     IN  IF cursor > Len(t)
         THEN /\ Resolve(results)
              /\ pc' = "done"
              /\ UNCHANGED <<results, skipped, counted, cursor>>
         ELSE IF skipped < options.offset
         THEN /\ results' = Append(results, t[cursor])
              /\ skipped' = skipped + 1
              /\ cursor' = cursor + 1
              /\ UNCHANGED <<counted, promiseVars, pc>>
         ELSE IF LimitReached(options.limit, counted)
         THEN /\ Resolve(results)
              /\ pc' = "done"
              /\ UNCHANGED <<results, skipped, counted, cursor>>
         ELSE /\ results' = Append(results, t[cursor])
              /\ counted' = counted + 1
              /\ cursor' = cursor + 1
              /\ UNCHANGED <<skipped, promiseVars, pc>>
  /\ UNCHANGED <<storeVars, txVars, callVars, hostError, crudVars, completed,
                 pending, options, outerVars>>

\* request.onsuccess: the cursor is null, or lands on its next record.
queryObjectData_onsuccess ==
  /\ pc = "query"
  /\ LET t == Traversal(objs, options.index, options.direction)
     IN  IF cursor > Len(t)
         THEN /\ Resolve(results)
              /\ pc' = "done"
              /\ UNCHANGED <<results, skipped, counted, cursor>>
         ELSE IF skipped < options.offset
         THEN /\ skipped' = skipped + 1
              /\ cursor' = cursor + 1
              /\ UNCHANGED <<results, counted, promiseVars, pc>>
         ELSE IF LimitReached(options.limit, counted)
         THEN /\ Resolve(results)
              /\ pc' = "done"
              /\ UNCHANGED <<results, skipped, counted, cursor>>
         ELSE /\ results' = Append(results, t[cursor])
              /\ counted' = counted + 1
              /\ cursor' = cursor + 1
              /\ UNCHANGED <<skipped, promiseVars, pc>>
  /\ UNCHANGED <<storeVars, txVars, callVars, hostError, crudVars, completed,
                 pending, options, outerVars>>

\* request.onerror: reject; the transaction aborts.
queryObjectData_onerror ==
  /\ pc = "query"
  /\ QueryFailed
  /\ hostError' = TRUE
  /\ Abort
  /\ pc' = "done"
  /\ UNCHANGED <<callVars, crudVars, bulkVars, queryVars, outerVars>>

\* Every store the 'users' configuration admits: unique ids, unique emails.
Stores ==
  LET none == <<0, 0>>
      rows == {f \in [Keys -> {none} \cup (Emails \X Ages)] :
                 \A j, k \in Keys :
                   (j # k /\ f[j] # none /\ f[k] # none) => f[j][1] # f[k][1]}
  IN  {{[id |-> k, email |-> f[k][1], age |-> f[k][2]] :
          k \in {j \in Keys : f[j] # none}} : f \in rows}

\* A database that already holds records.
InitQuery ==
  /\ objs \in Stores
  /\ keyGen = MaxOf(KeySet(objs)) + 1
  /\ tx = "none"
  /\ committed = [objs |-> objs, keyGen |-> keyGen]
  /\ pre = objs
  /\ Fresh
  /\ FreshDb
  /\ FreshHandler
  /\ FreshUtil

NextQuery ==
  \/ transaction
  \/ TxComplete
  \/ \E o \in QueryOptions : queryObjectData(o)
  \/ queryObjectData_onsuccess
  \/ queryObjectData_onerror

SpecQuery == InitQuery /\ [][NextQuery]_vars

\* --------------------------------------------------------- updateObjectData
Fields == {"id", "email", "age"}
\* The values a field is matched against.
FieldValues(kp) ==
  CASE kp = "id"    -> Keys
    [] kp = "email" -> Emails
    [] kp = "age"   -> Ages
\* The records handed over as newData.
UpdateRecords == {r \in Records : r.email # 3}

\* data[keyPath].
Field(r, kp) ==
  CASE kp = "id"    -> r.id
    [] kp = "email" -> r.email
    [] kp = "age"   -> r.age

\* allData.find(data => data[keyPath] === key): the first match, or undefined.
FindTarget(allData, kp, key) ==
  LET hits == {i \in DOMAIN allData : Field(allData[i], kp) = key}
  IN  IF hits = {} THEN Undefined
      ELSE allData[CHOOSE i \in hits : \A j \in hits : i <= j]

UpdateNotFound == IndexedDBError("There's no object in the store that matches")

\* A variant whose cursor runs backwards: store.openCursor(null, 'prev').
UpdateScan_prev(S) == Reverse(SortByKey(S))

\* store.openCursor(): the records in ascending primary-key order.
UpdateScan(S) == SortByKey(S)

\* A variant that stores newData under whatever key it carries.
UpdateAccepted_anyKey(record, newData) == TRUE

\* cursor.update(newData) on a store with in-line keys is refused with a
\* DataError exception unless newData holds the key of the cursor's record.
UpdateAccepted(record, newData) == newData.id = record.id

\* updateObjectData(store, keyPath, key, newData): getAllObjectData(store)
\* is issued first.
updateObjectData(kp, key, newData) ==
  /\ tx = "active"
  /\ pc \in {"idle", "done"}
  /\ op' = Call("update", key, newData, <<>>)
  /\ pre' = objs
  /\ pc' = "upd_getAll"
  /\ promise' = "pending"
  /\ value' = <<>>
  /\ error' = NoError
  /\ hostError' = FALSE
  /\ keyPath' = kp
  /\ cursorOpened' = FALSE
  /\ found' = FALSE
  /\ thrown' = FALSE
  /\ cursor' = 0
  /\ UNCHANGED <<storeVars, txVars, deleteIssued, deletedObject, bulkVars,
                 options, skipped, counted, outerVars>>

\* A variant without the existence check: the cursor is always opened.
updateObjectData_then_unchecked ==
  /\ pc = "upd_getAll"
  /\ cursorOpened' = TRUE
  /\ cursor' = 1
  /\ pc' = "upd_cursor"
  /\ UNCHANGED <<storeVars, txVars, callVars, promiseVars, hostError,
                 deleteIssued, deletedObject, keyPath, found, thrown,
                 bulkVars, options, skipped, counted, outerVars>>

\* getAllObjectData resolved and the .then callback runs: reject when no
\* record matches, else cursorRequest = store.openCursor().
updateObjectData_then ==
  /\ pc = "upd_getAll"
  /\ IF FindTarget(SortByKey(objs), keyPath, op.key) = Undefined
     THEN /\ Reject(UpdateNotFound)
          /\ pc' = "done"
          /\ UNCHANGED <<cursorOpened, cursor>>
     ELSE /\ cursorOpened' = TRUE
          /\ cursor' = 1
          /\ pc' = "upd_cursor"
          /\ UNCHANGED promiseVars
  /\ UNCHANGED <<storeVars, txVars, callVars, hostError, deleteIssued,
                 deletedObject, keyPath, found, thrown, bulkVars, options,
                 skipped, counted, outerVars>>

\* getAllObjectData rejected and the .catch callback runs.
updateObjectData_catch ==
  /\ pc = "upd_getAll"
  /\ ErrorEvent(IndexedDBError("Failed to retrieve all data"))
  /\ UNCHANGED <<callVars, crudVars, bulkVars, queryVars, outerVars>>

\* cursorRequest.onsuccess: the cursor is null, or lands on its next record.
\* On the target, updateRequest = cursor.update(newData); a refusal of the
\* update is an exception that leaves the handler, upon which the host
\* aborts the transaction.
cursorRequest_onsuccess ==
  /\ pc = "upd_cursor"
  /\ LET t == UpdateScan(objs)
     IN  IF cursor > Len(t)
         THEN /\ IF ~found
                 THEN Reject(IndexedDBError("Failed to locate object"))
                 ELSE UNCHANGED promiseVars
              /\ pc' = "done"
              /\ UNCHANGED <<storeVars, txVars, found, thrown, cursor>>
         ELSE IF Field(t[cursor], keyPath) = op.key
         THEN /\ found' = TRUE
              /\ IF UpdateAccepted(t[cursor], op.data)
                 THEN /\ pc' = "upd_update"
                      /\ UNCHANGED <<storeVars, txVars, thrown>>
                 ELSE /\ thrown' = TRUE
                      /\ Abort
                      /\ pc' = "done"
              /\ UNCHANGED <<promiseVars, cursor>>
         ELSE /\ cursor' = cursor + 1
              /\ UNCHANGED <<storeVars, txVars, promiseVars, pc, found,
                             thrown>>
  /\ UNCHANGED <<callVars, hostError, deleteIssued, deletedObject, keyPath,
                 cursorOpened, bulkVars, options, skipped, counted,
                 outerVars>>

\* cursorRequest.onerror.
cursorRequest_onerror ==
  /\ pc = "upd_cursor"
  /\ ErrorEvent(IndexedDBError("Cursor operation failed"))
  /\ UNCHANGED <<callVars, crudVars, bulkVars, queryVars, outerVars>>

\* updateRequest.onsuccess: newData stands in place of the cursor's record;
\* getAllObjectData(store) is issued.
updateRequest_onsuccess ==
  /\ pc = "upd_update"
  /\ PutOk(objs, keyGen, op.data)
  /\ objs' = StoreWith(objs, keyGen, op.data)
  /\ keyGen' = GenAfter(KeyFor(op.data, keyGen), keyGen)
  /\ pc' = "upd_getAll2"
  /\ UNCHANGED <<txVars, callVars, promiseVars, hostError, crudVars,
                 bulkVars, queryVars, outerVars>>

\* updateRequest.onerror: the unique index refuses newData, or the host fails.
updateRequest_onerror ==
  /\ pc = "upd_update"
  /\ ErrorEvent(IndexedDBError("Update operation failed"))
  /\ UNCHANGED <<callVars, crudVars, bulkVars, queryVars, outerVars>>

\* getAllObjectData resolved: resolve(updatedData).
updateObjectData_getAll_onsuccess ==
  /\ pc = "upd_getAll2"
  /\ Resolve(SortByKey(objs))
  /\ pc' = "done"
  /\ UNCHANGED <<storeVars, txVars, callVars, hostError, crudVars, bulkVars,
                 queryVars, outerVars>>

\* getAllObjectData rejected: reject(error).
updateObjectData_getAll_onerror ==
  /\ pc = "upd_getAll2"
  /\ ErrorEvent(IndexedDBError("Failed to retrieve all data"))
  /\ UNCHANGED <<callVars, crudVars, bulkVars, queryVars, outerVars>>

\* --------------------------------------------------------- clearObjectStore
\* IDBObjectStore.count().
StoreCount(S) == Cardinality(S)

\* A variant that removes the record of lowest key only.
StoreCleared_first(S) == IF S = {} THEN {} ELSE S \ {SortByKey(S)[1]}

\* IDBObjectStore.clear().
StoreCleared(S) == {}

\* clearObjectStore(store): request = store.clear().
clearObjectStore ==
  /\ Begin(Call("clear", NoKey, Undefined, <<>>), "clear")
  /\ UNCHANGED <<bulkVars, queryVars, outerVars>>

\* request.onsuccess: resolve().
clearObjectStore_onsuccess ==
  /\ pc = "clear"
  /\ objs' = StoreCleared(objs)
  /\ Resolve(Undefined)
  /\ pc' = "done"
  /\ UNCHANGED <<keyGen, txVars, callVars, hostError, crudVars, bulkVars,
                 queryVars, outerVars>>

\* request.onerror.
clearObjectStore_onerror ==
  /\ pc = "clear"
  /\ ErrorEvent(IndexedDBError("Clear operation failed"))
  /\ UNCHANGED <<callVars, crudVars, bulkVars, queryVars, outerVars>>

NextUpdate ==
  \/ transaction
  \/ TxComplete
  \/ \E kp \in Fields : \E key \in FieldValues(kp), d \in UpdateRecords :
       updateObjectData(kp, key, d)
  \/ updateObjectData_then
  \/ updateObjectData_catch
  \/ cursorRequest_onsuccess
  \/ cursorRequest_onerror
  \/ updateRequest_onsuccess
  \/ updateRequest_onerror
  \/ updateObjectData_getAll_onsuccess
  \/ updateObjectData_getAll_onerror
  \/ clearObjectStore
  \/ clearObjectStore_onsuccess
  \/ clearObjectStore_onerror

\* Updates and clears of a database that already holds records.
SpecUpdate == InitQuery /\ [][NextUpdate]_vars

\* ------------------------------------------------------------------ createDB
\* The seed records of a configuration: one without an id field, and two of
\* one id that differ in their email.
SeedRecords ==
  {r \in [id : {NoKey, 1}, email : {1, 2}, age : {30}] :
     r.id # NoKey \/ r.email = 1}
\* The data arrays: records without repetition, by ascending id and email.
SeedArrays ==
  {a \in UNION {[1..n -> SeedRecords] : n \in 0..MaxSeed} :
     \A i, j \in DOMAIN a :
       i < j => \/ a[i].id < a[j].id
                \/ a[i].id = a[j].id /\ a[i].email < a[j].email}

\* IDBStoreConfig: name, config.keyPath (autoIncrement: true), the names of
\* the indices (index 'email' is unique) and the seed records.
UsersConfigs ==
  {c \in [name : {"users"}, keyPath : KeyPaths, indices : {{}, {"email"}},
          data : SeedArrays] :
     c.keyPath = "email" => c.indices = {}}
ProductsConfigs ==
  [name : {"products"}, keyPath : {"id"}, indices : {{"age"}},
   data : {<<>>}]
\* The stores argument: an array of store configurations.
StoreConfigs ==
  {<<>>} \cup {<<u>> : u \in UsersConfigs} \cup
  {<<p>> : p \in ProductsConfigs}

\* The configuration of the tests: both stores carry seed records.
SeededConfigs ==
  {<<u, [p EXCEPT !.data = <<[id |-> 1, email |-> 1, age |-> 30]>>]>> :
     u \in {c \in UsersConfigs : c.data # <<>> /\ c.indices = {}},
     p \in ProductsConfigs}

\* The primary key of a record: its value at the key path of the store;
\* for key path 'id' the key generator supplies a missing one.
PrimaryKey(item, kp, gen) == IF kp = "id" THEN KeyFor(item, gen) ELSE item.email

\* The primary keys in use in a store.
StoreKeys(st) ==
  {IF st.keyPath = "id" THEN r.id ELSE r.email : r \in st.records}

\* Two records of the store have one email: a unique index cannot be built.
IndexRefused(st, indices) ==
  /\ "email" \in indices \ st.indexNames
  /\ \E q, r \in st.records : q # r /\ q.email = r.email

\* A variant that replaces a store that exists by one of the configuration.
UpgradedStore_recreate(st, d) ==
  [exists |-> TRUE, keyPath |-> d.keyPath, indexNames |-> d.indices,
   records |-> {}, keyGen |-> 1]

\* One turn of stores.forEach in onupgradeneeded: createObjectStore when the
\* name is missing, then createIndex for each index name that is missing.
UpgradedStore(st, d) ==
  IF ~st.exists
  THEN [exists |-> TRUE, keyPath |-> d.keyPath, indexNames |-> d.indices,
        records |-> {}, keyGen |-> 1]
  ELSE [st EXCEPT !.indexNames = @ \cup d.indices]

\* The database after onupgradeneeded has run for the configuration.
Upgraded(d, version, stores) ==
  [version |-> version,
   stores |-> [n \in StoreNames |->
     IF \E i \in DOMAIN stores : stores[i].name = n
     THEN UpgradedStore(d.stores[n],
            stores[CHOOSE i \in DOMAIN stores : stores[i].name = n])
     ELSE d.stores[n]]]

\* existingIds = new Set(existingData.map(item => item.id)); the seed
\* records for which !existingIds.has(item.id), in the order of the array.
ToAdd(data, st) ==
  LET existingIds == {r.id : r \in st.records}
      Missing(item) == item.id \notin existingIds
  IN  SelectSeq(data, Missing)

RECURSIVE SeedAdd_put(_, _)
\* A variant whose requests are objectStore.put(item): a record under the
\* key of a seed record is replaced by it.
SeedAdd_put(st, items) ==
  IF items = <<>> THEN [ok |-> TRUE, store |-> st]
  ELSE LET item == Head(items)
           key  == PrimaryKey(item, st.keyPath, st.keyGen)
           kept == IF st.keyPath = "id" THEN [item EXCEPT !.id = key]
                   ELSE item
           rest == {r \in st.records :
                      (IF st.keyPath = "id" THEN r.id ELSE r.email) # key}
       IN  IF /\ "email" \in st.indexNames
              /\ \E r \in rest : r.email = item.email
           THEN [ok |-> FALSE, store |-> st]
           ELSE SeedAdd_put([st EXCEPT
                               !.records = rest \cup {kept},
                               !.keyGen = IF st.keyPath = "id"
                                          THEN GenAfter(key, @) ELSE @],
                            Tail(items))

RECURSIVE SeedAdd(_, _)
\* The add requests of a seeding transaction, served in order: the store
\* after them, or ok = FALSE as soon as one is refused (key in use, or
\* email in use under the unique index).
SeedAdd(st, items) ==
  IF items = <<>> THEN [ok |-> TRUE, store |-> st]
  ELSE LET item == Head(items)
           key  == PrimaryKey(item, st.keyPath, st.keyGen)
           kept == IF st.keyPath = "id" THEN [item EXCEPT !.id = key]
                   ELSE item
       IN  IF \/ key \in StoreKeys(st)
              \/ /\ "email" \in st.indexNames
                 /\ \E r \in st.records : r.email = item.email
           THEN [ok |-> FALSE, store |-> st]
           ELSE SeedAdd([st EXCEPT
                           !.records = @ \cup {kept},
                           !.keyGen = IF st.keyPath = "id"
                                      THEN GenAfter(key, @) ELSE @],
                        Tail(items))

\* The key generator of no store is driven past MaxKey by the seeds.
SeedFits(d, stores) ==
  \A i \in DOMAIN stores :
    d.stores[stores[i].name].keyGen + Len(stores[i].data) <= MaxKey + 1

\* A variant that settles the promise again: resolve(db) after a reject.
DbResolve_again == dbPromise' = [state |-> "resolved", error |-> ""]

\* resolve(db) / reject(e) of the promise createDB or openDB has returned:
\* they settle a pending promise and are no-ops afterwards.
DbResolve ==
  IF dbPromise.state = "pending"
  THEN dbPromise' = [state |-> "resolved", error |-> ""]
  ELSE UNCHANGED dbPromise
DbReject(e) ==
  IF dbPromise.state = "pending"
  THEN dbPromise' = [state |-> "rejected", error |-> e]
  ELSE UNCHANGED dbPromise

\* The handle a success event hands over: one that no open connection has.
NewHandle(conns) ==
  CHOOSE h \in 1..MaxOpen :
    h \notin conns /\ \A g \in (1..MaxOpen) \ conns : h <= g

\* What the seeding of a call has inserted, store by store.
Inserted ==
  [n \in StoreNames |-> db.stores[n].records \ dbBefore.stores[n].records]

\* A new call: the locals of the call before are gone.
NewCall(c) ==
  /\ call' = c
  /\ repeat' = (dbPromise.state = "resolved" /\ c = call)
  /\ retry' = IF c = call /\ dbPromise.state = "rejected" /\ seeded # {}
              THEN Inserted ELSE NoRecords
  /\ dbBefore' = db
  /\ upgraded' = FALSE
  /\ seedQueue' = <<>>
  /\ seedAdds' = <<>>
  /\ fired' = {}
  /\ seeded' = {}
  /\ result' = NoHandle

\* A variant without the compatibility check: the open request is issued.
Compatible_unchecked(s) == TRUE

\* if (!isIndexedDBSupported()) throw new IndexedDBError(...).
Compatible(s) == s

\* The body of createDB: request = indexedDB.open(name, version), or the
\* IndexedDBError thrown when the host has no storage API.
CreateDB(version, stores) ==
  /\ open \in {"none", "done"}
  /\ SeedFits(db, stores)
  /\ Cardinality(connections) < MaxOpen
  /\ NewCall([fn |-> "createDB", version |-> version, stores |-> stores])
  /\ IF Compatible(supported)
     THEN /\ open' = "pending"
          /\ dbPromise' = [state |-> "pending", error |-> ""]
     ELSE /\ open' = "none"
          /\ dbPromise' = [state |-> "thrown", error |-> "IndexedDBError"]
  /\ UNCHANGED <<db, supported, connections, storeVars, txVars, opVars,
                 handlerVars>>

\* createDB(name, version, stores), called by the application.
createDB(version, stores) ==
  /\ stage = "none"
  /\ CreateDB(version, stores)
  /\ UNCHANGED utilVars

\* The host has an upgrade to make and a connection of an earlier call is
\* still open (no handle has an onversionchange handler that closes it).
Blocked == call.version > db.version /\ connections # {}

\* request.onblocked: reject; the request stays pending until the other
\* connections are closed.
createDB_onblocked ==
  /\ open = "pending"
  /\ call.fn = "createDB"
  /\ Blocked
  /\ "blocked" \notin fired
  /\ fired' = fired \cup {"blocked"}
  /\ DbReject("IndexedDBError")
  /\ UNCHANGED <<db, dbBefore, call, repeat, open, upgraded, seedQueue,
                 seedAdds, supported, connections, seeded, retry, result,
                 storeVars, txVars, opVars, handlerVars, utilVars>>

\* request.onupgradeneeded, for a version above the database's: the stores
\* and indices that are missing are created.  When the host cannot build a
\* unique index over the records of a store, the upgrade is aborted and
\* request.onerror rejects.
createDB_onupgradeneeded ==
  /\ open = "pending"
  /\ call.fn = "createDB"
  /\ call.version > db.version
  /\ ~Blocked
  /\ upgraded' = TRUE
  /\ IF \E i \in DOMAIN call.stores :
          IndexRefused(db.stores[call.stores[i].name], call.stores[i].indices)
     THEN /\ DbReject("IndexedDBError")
          /\ fired' = fired \cup {"upgradeneeded", "error"}
          /\ open' = "done"
          /\ UNCHANGED db
     ELSE /\ db' = Upgraded(db, call.version, call.stores)
          /\ fired' = fired \cup {"upgradeneeded"}
          /\ open' = "upgraded"
          /\ UNCHANGED dbPromise
  /\ UNCHANGED <<dbBefore, call, repeat, seedQueue, seedAdds, supported,
                 connections, seeded, retry, result, storeVars,
                 txVars, opVars, handlerVars, utilVars>>

\* request.onerror: the host refuses a version below the database's.
createDB_onerror ==
  /\ open = "pending"
  /\ call.fn = "createDB"
  /\ call.version < db.version
  /\ DbReject("IndexedDBError")
  /\ fired' = fired \cup {"error"}
  /\ open' = "done"
  /\ UNCHANGED <<db, dbBefore, call, repeat, upgraded, seedQueue, seedAdds,
                 supported, connections, seeded, retry, result, storeVars,
                 txVars, opVars, handlerVars, utilVars>>

\* const tx = db.transaction(store.name, 'readwrite') for the first store of
\* the queue, and objectStore.getAll(); the host throws for a store name the
\* database does not have, and the catch block rejects with that error.
SeedBegin(queue) ==
  IF db'.stores[queue[1].name].exists
  THEN /\ seedQueue' = queue
       /\ open' = "seed_getAll"
       /\ UNCHANGED dbPromise
  ELSE /\ seedQueue' = <<>>
       /\ DbReject("NotFoundError")
       /\ open' = "done"

\* A variant that holds a store to have data on an upgrade only.
HasData_onUpgrade(store) == upgraded /\ Len(store.data) > 0

\* store => Array.isArray(store.data) && store.data.length > 0.
HasData(store) == Len(store.data) > 0

\* request.onsuccess, up to its first await: the connection is open;
\* resolve(db) when there is nothing to seed, else the seeding of the first
\* store with data starts.
createDB_onsuccess ==
  /\ \/ open = "pending" /\ call.version = db.version
     \/ open = "upgraded"
  /\ call.fn = "createDB"
  /\ UNCHANGED db
  /\ result' = NewHandle(connections)
  /\ connections' = connections \cup {result'}
  /\ fired' = fired \cup {"success"}
  /\ LET storesWithData == SelectSeq(call.stores, HasData)
     IN  IF storesWithData = <<>>
         THEN DbResolve /\ open' = "done" /\ UNCHANGED seedQueue
         ELSE SeedBegin(storesWithData)
  /\ UNCHANGED <<dbBefore, call, repeat, upgraded, seedAdds, supported,
                 seeded, retry, storeVars,
                 txVars, opVars, handlerVars, utilVars>>

\* getAllRequest.onsuccess and the code after the await: objectStore.add for
\* each seed record whose id is not among the ids of the records fetched.
createDB_getAll_onsuccess ==
  /\ open = "seed_getAll"
  /\ seedAdds' = ToAdd(seedQueue[1].data, db.stores[seedQueue[1].name])
  /\ open' = "seed_tx"
  /\ UNCHANGED <<db, dbBefore, call, repeat, dbPromise, upgraded, seedQueue,
                 supported, connections, fired, seeded, retry, result,
                 storeVars, txVars, opVars, handlerVars, utilVars>>

\* What the catch block rejects with when it has caught the host's own
\* exception object: the object itself where it is an Error, else
\* new IndexedDBError('Unknown error occurred').
HostExceptions == {"DOMException", "IndexedDBError"}

\* getAllRequest.onerror: rej(request.error); the catch block rejects.
createDB_getAll_onerror ==
  /\ open = "seed_getAll"
  /\ \E e \in HostExceptions : DbReject(e)
  /\ fired' = fired \cup {"getAll.error"}
  /\ open' = "done"
  /\ seedQueue' = <<>>
  /\ UNCHANGED <<db, dbBefore, call, repeat, upgraded, seedAdds, supported,
                 connections, seeded, retry, result,
                 storeVars, txVars, opVars, handlerVars, utilVars>>

\* tx.oncomplete: every add was served; the next store with data is seeded,
\* or resolve(db).
createDB_tx_oncomplete ==
  /\ open = "seed_tx"
  /\ LET name == seedQueue[1].name
         done == SeedAdd(db.stores[name], seedAdds)
     IN  /\ done.ok
         /\ db' = [db EXCEPT !.stores[name] = done.store]
         /\ seeded' = seeded \cup {name}
  /\ seedAdds' = <<>>
  /\ IF Len(seedQueue) = 1
     THEN DbResolve /\ open' = "done" /\ seedQueue' = <<>>
     ELSE SeedBegin(Tail(seedQueue))
  /\ UNCHANGED <<dbBefore, call, repeat, upgraded, supported, connections,
                 fired, retry, result, storeVars,
                 txVars, opVars, handlerVars, utilVars>>

\* tx.onerror: an add was refused; the transaction is aborted, its adds are
\* undone, and the catch block rejects with the TransactionError.
createDB_tx_onerror ==
  /\ open = "seed_tx"
  /\ ~SeedAdd(db.stores[seedQueue[1].name], seedAdds).ok
  /\ DbReject("TransactionError")
  /\ fired' = fired \cup {"tx.error"}
  /\ open' = "done"
  /\ seedAdds' = <<>>
  /\ seedQueue' = <<>>
  /\ UNCHANGED <<db, dbBefore, call, repeat, upgraded, supported,
                 connections, seeded, retry, result, storeVars,
                 txVars, opVars, handlerVars, utilVars>>

\* -------------------------------------------------------------------- openDB
\* openDB(name, version): request = indexedDB.open(name, version), or the
\* IndexedDBError thrown when the host has no storage API.
openDB(version) ==
  /\ open \in {"none", "done"}
  /\ stage = "none"
  /\ Cardinality(connections) < MaxOpen
  /\ NewCall([fn |-> "openDB", version |-> version, stores |-> <<>>])
  /\ IF Compatible(supported)
     THEN /\ open' = "pending"
          /\ dbPromise' = [state |-> "pending", error |-> ""]
     ELSE /\ open' = "none"
          /\ dbPromise' = [state |-> "thrown", error |-> "IndexedDBError"]
  /\ UNCHANGED <<db, supported, connections, storeVars, txVars, opVars,
                 handlerVars, utilVars>>

\* request.onblocked: reject; the request stays pending.
openDB_onblocked ==
  /\ open = "pending"
  /\ call.fn = "openDB"
  /\ Blocked
  /\ "blocked" \notin fired
  /\ fired' = fired \cup {"blocked"}
  /\ DbReject("IndexedDBError")
  /\ UNCHANGED <<db, dbBefore, call, repeat, open, upgraded, seedQueue,
                 seedAdds, supported, connections, seeded, retry, result,
                 storeVars, txVars, opVars, handlerVars, utilVars>>

\* request.onsuccess: resolve(request.result).  There is no onupgradeneeded
\* handler: for a version above the database's the host raises the version
\* and leaves the stores as they are.
openDB_onsuccess ==
  /\ open = "pending"
  /\ call.fn = "openDB"
  /\ call.version >= db.version
  /\ ~Blocked
  /\ db' = [db EXCEPT !.version = call.version]
  /\ result' = NewHandle(connections)
  /\ connections' = connections \cup {result'}
  /\ fired' = fired \cup {"success"}
  /\ DbResolve
  /\ open' = "done"
  /\ UNCHANGED <<dbBefore, call, repeat, upgraded, seedQueue, seedAdds,
                 supported, seeded, retry, storeVars, txVars, opVars,
                 handlerVars, utilVars>>

\* request.onerror: the host refuses a version below the database's.
openDB_onerror ==
  /\ open = "pending"
  /\ call.fn = "openDB"
  /\ call.version < db.version
  /\ DbReject("IndexedDBError")
  /\ fired' = fired \cup {"error"}
  /\ open' = "done"
  /\ UNCHANGED <<db, dbBefore, call, repeat, upgraded, seedQueue, seedAdds,
                 supported, connections, seeded, retry, result, storeVars,
                 txVars, opVars, handlerVars, utilVars>>

\* IDBDatabase.close() by the caller of an earlier call on its handle.
IDBDatabase_close(h) ==
  /\ h \in connections
  /\ h # result
  /\ h # self_db
  /\ connections' = connections \ {h}
  /\ UNCHANGED <<db, dbBefore, call, repeat, open, dbPromise, upgraded,
                 seedQueue, seedAdds, supported, fired, seeded, retry, result,
                 storeVars, txVars, opVars, handlerVars, utilVars>>

NextCreate ==
  \/ \E v \in Versions, stores \in StoreConfigs : createDB(v, stores)
  \/ createDB_onblocked
  \/ createDB_onupgradeneeded
  \/ createDB_onerror
  \/ createDB_onsuccess
  \/ createDB_getAll_onsuccess
  \/ createDB_getAll_onerror
  \/ createDB_tx_oncomplete
  \/ createDB_tx_onerror
  \/ \E h \in 1..MaxOpen : IDBDatabase_close(h)

\* Calls of createDB, one after the other, on a name that has no database.
SpecCreate == Init /\ [][NextCreate]_vars

\* --------------------------------------------- createDB between other writes
\* IndexedDBUtil.put('users', data) of the application has resolved: its
\* transaction has stored a record of the store again, with another age.
Database_put(data) ==
  /\ open = "done"
  /\ connections # {}
  /\ data \in db.stores["users"].records
  /\ data.age = 30
  /\ db' = [db EXCEPT !.stores["users"].records =
                        (@ \ {data}) \cup {[data EXCEPT !.age = 25]}]
  /\ UNCHANGED <<dbBefore, call, repeat, open, dbPromise, upgraded,
                 seedQueue, seedAdds, supported, connections, fired, seeded,
                 retry, result, storeVars, txVars, opVars, handlerVars,
                 utilVars>>

\* IndexedDBUtil.delete('users', key) of the application has resolved: its
\* transaction has deleted the record.
Database_delete(data) ==
  /\ open = "done"
  /\ connections # {}
  /\ data \in db.stores["users"].records
  /\ db' = [db EXCEPT !.stores["users"].records = @ \ {data}]
  /\ UNCHANGED <<dbBefore, call, repeat, open, dbPromise, upgraded,
                 seedQueue, seedAdds, supported, connections, fired, seeded,
                 retry, result, storeVars, txVars, opVars, handlerVars,
                 utilVars>>

\* The configurations of the calls: store 'users' without indices, with
\* seed records.
SeedConfigs == {c \in UsersConfigs : c.indices = {} /\ c.data # <<>>}

\* The records the application changes and deletes: those of the id the
\* seed records carry.
ChangedRecords == {r \in StoredRecords : r.id = 1}

NextSeed ==
  \/ \E v \in Versions, u \in SeedConfigs : createDB(v, <<u>>)
  \/ createDB_onblocked
  \/ createDB_onupgradeneeded
  \/ createDB_onerror
  \/ createDB_onsuccess
  \/ createDB_getAll_onsuccess
  \/ createDB_getAll_onerror
  \/ createDB_tx_oncomplete
  \/ createDB_tx_onerror
  \/ \E h \in 1..MaxOpen : IDBDatabase_close(h)
  \/ \E data \in ChangedRecords : Database_put(data)
  \/ \E data \in ChangedRecords : Database_delete(data)

\* Calls of createDB on a database whose records the application changes
\* and deletes between the calls.
SpecSeed == Init /\ [][NextSeed]_vars

NextOpen ==
  \/ \E v \in Versions, stores \in {<<>>} \cup SeededConfigs :
       createDB(v, stores)
  \/ createDB_onblocked
  \/ createDB_onupgradeneeded
  \/ createDB_onerror
  \/ createDB_onsuccess
  \/ createDB_getAll_onsuccess
  \/ createDB_getAll_onerror
  \/ createDB_tx_oncomplete
  \/ createDB_tx_onerror
  \/ \E v \in Versions : openDB(v)
  \/ openDB_onblocked
  \/ openDB_onsuccess
  \/ openDB_onerror
  \/ \E h \in 1..MaxOpen : IDBDatabase_close(h)

\* Calls of createDB with seed records for both stores and of openDB, one
\* after the other, on a name that has no database.
SpecOpen == Init /\ [][NextOpen]_vars

\* ------------------------------------------------------ transaction handler
\* The names getStore is asked for: the stores, and a name of no store.
HandleNames == StoreNames \cup {"posts"}

StoreNotFoundError == [class |-> "StoreNotFoundError",
                       code |-> "STORE_NOT_FOUND"]
TransactionError == [class |-> "TransactionError",
                     code |-> "TRANSACTION_ERROR"]
NoValue == [class |-> "", code |-> ""]

\* The database createDB has made of the test configuration, seeds aside.
OpenedDatabase ==
  [version |-> 1,
   stores |-> [n \in StoreNames |->
     [exists |-> TRUE, keyPath |-> "id",
      indexNames |-> IF n = "users" THEN IndexNames ELSE {},
      records |-> {}, keyGen |-> 1]]]

\* reject(e) of the promise a callback of the transaction belongs to.
RejectAt(ps, i, e) ==
  IF i # 0 /\ ps[i].state = "pending"
  THEN [ps EXCEPT ![i].state = "rejected", ![i].error = e]
  ELSE ps

\* resolve() of the promise a callback of the transaction belongs to.
ResolveAt(ps, i) ==
  IF i # 0 /\ ps[i].state = "pending"
  THEN [ps EXCEPT ![i].state = "resolved"]
  ELSE ps

\* getDB() throws: 'Database not initialized. Call init() first.'
NotInitialized ==
  [fn |-> "getDB", threw |-> "IndexedDBError", value |-> NoHandle]

\* transaction(dbObject, stores, mode): dbObject.transaction(stores, mode)
\* and a new handler, whose callbacks are unset.
NewHandler(stores) ==
  /\ tx' = "active"
  /\ committed' = [objs |-> objs, keyGen |-> keyGen]
  /\ pre' = objs
  /\ Reset
  /\ scope' = stores
  /\ txEvent' = ""

\* IndexedDBUtil.transaction(stores, mode): this.getDB(), which throws when
\* this.db is null, then dbObject.transaction(stores, mode) and a new
\* handler; the host throws for an empty list and for a name the database
\* does not have.
IndexedDBUtil_transaction(stores) ==
  /\ tx = "none"
  /\ pc \in {"idle", "done"}
  /\ stage = "none"
  /\ stores # {}
  /\ \A n \in stores : db.stores[n].exists
  /\ IF self_db = NoHandle
     THEN /\ ret' = [NotInitialized EXCEPT !.fn = "transaction"]
          /\ UNCHANGED <<txVars, opVars, handlerVars>>
     ELSE /\ ret' = [fn |-> "transaction", threw |-> "", value |-> self_db]
          /\ NewHandler(stores)
          /\ promises' = <<>>
          /\ oncomplete' = 0
          /\ onerror' = 0
          /\ onabort' = 0
  /\ UNCHANGED <<storeVars, dbVars, self_db, outer, stage, adds>>

\* A variant that looks the name up in the database.
InScope_database(name, S) ==
  name \in {n \in StoreNames : db.stores[n].exists}

\* tx.objectStore(name) returns the store: name is in the scope of tx.
InScope(name, S) == name \in S

\* getStore(name): tx.onerror and tx.onabort are set to reject the new
\* promise; tx.objectStore(name) throws when the transaction has finished or
\* the name is outside its scope, and the catch block rejects with a
\* StoreNotFoundError; else resolve(store).
getStore(name) ==
  /\ scope # {}
  /\ Len(promises) < MaxCalls
  /\ LET ok == tx = "active" /\ InScope(name, scope)
     IN  promises' = Append(promises,
           [kind |-> "getStore", name |-> name, live |-> tx = "active",
            state |-> IF ok THEN "resolved" ELSE "rejected",
            value |-> IF ok THEN name ELSE "",
            error |-> IF ok THEN NoValue ELSE StoreNotFoundError])
  /\ onerror' = Len(promises) + 1
  /\ onabort' = Len(promises) + 1
  /\ UNCHANGED <<storeVars, txVars, opVars, dbVars, utilVars, scope, txEvent,
                 oncomplete>>

\* commit(): tx.oncomplete, tx.onerror and tx.onabort are set to settle the
\* new promise.
commit ==
  /\ scope # {}
  /\ Len(promises) < MaxCalls
  /\ promises' = Append(promises,
       [kind |-> "commit", name |-> "", live |-> tx = "active",
        state |-> "pending", value |-> "", error |-> NoValue])
  /\ oncomplete' = Len(promises) + 1
  /\ onerror' = Len(promises) + 1
  /\ onabort' = Len(promises) + 1
  /\ UNCHANGED <<storeVars, txVars, opVars, dbVars, utilVars, scope, txEvent>>

\* A variant that keeps the writes of the transaction.
abort_keepsWrites ==
  /\ tx = "active"
  /\ tx' = "aborted"
  /\ UNCHANGED <<storeVars, committed, opVars, outerVars>>

\* abort(): tx.abort().  The host undoes the writes of the transaction at
\* once and queues an error event for each pending request, then the abort
\* event.
abort ==
  /\ tx = "active"
  /\ tx' = "aborted"
  /\ objs' = committed.objs
  /\ keyGen' = committed.keyGen
  /\ UNCHANGED <<committed, opVars, outerVars>>

\* The host fires complete at a transaction that has no request pending.
tx_oncomplete ==
  /\ tx = "active"
  /\ pc \in {"idle", "done"}
  /\ tx' = "none"
  /\ txEvent' = "complete"
  /\ promises' = ResolveAt(promises, oncomplete)
  /\ UNCHANGED <<storeVars, committed, opVars, dbVars, utilVars, scope, oncomplete,
                 onerror, onabort>>

\* The error event of a failed request, which no handler has cancelled,
\* reaches the transaction; the host aborts the transaction.
tx_onerror ==
  /\ tx = "active"
  /\ pc \in {"idle", "done"}
  /\ tx' = "aborted"
  /\ txEvent' = "error"
  /\ objs' = committed.objs
  /\ keyGen' = committed.keyGen
  /\ promises' = RejectAt(promises, onerror, TransactionError)
  /\ UNCHANGED <<committed, opVars, dbVars, utilVars, scope, oncomplete, onerror,
                 onabort>>

\* A variant in which the abort event calls no callback.
tx_onabort_silent ==
  /\ tx = "aborted"
  /\ pc \in {"idle", "done"}
  /\ tx' = "none"
  /\ txEvent' = "abort"
  /\ UNCHANGED <<storeVars, committed, opVars, dbVars, utilVars, scope, promises,
                 oncomplete, onerror, onabort>>

\* The host fires abort at the transaction, after the error events of the
\* requests that were pending.
tx_onabort ==
  /\ tx = "aborted"
  /\ pc \in {"idle", "done"}
  /\ tx' = "none"
  /\ txEvent' = "abort"
  /\ promises' = RejectAt(promises, onabort, TransactionError)
  /\ UNCHANGED <<storeVars, committed, opVars, dbVars, utilVars, scope, oncomplete,
                 onerror, onabort>>

\* The database is open and holds the stores of the test configuration.
InitTx ==
  /\ objs = {}
  /\ keyGen = 1
  /\ tx = "none"
  /\ committed = [objs |-> {}, keyGen |-> 1]
  /\ pre = {}
  /\ Fresh
  /\ db = OpenedDatabase
  /\ dbBefore = NoDatabase
  /\ call = NoCall
  /\ repeat = FALSE
  /\ open = "done"
  /\ dbPromise = [state |-> "resolved", error |-> ""]
  /\ upgraded = TRUE
  /\ seedQueue = <<>>
  /\ seedAdds = <<>>
  /\ supported = TRUE
  /\ connections = {1}
  /\ fired = {"success"}
  /\ seeded = {}
  /\ retry = NoRecords
  /\ result = 1
  /\ FreshHandler
  /\ self_db = 1
  /\ outer = [fn |-> "init", state |-> "resolved", error |-> ""]
  /\ stage = "none"
  /\ ret = NoReturn
  /\ adds = NoAdds

NextTx ==
  \/ \E S \in SUBSET StoreNames : IndexedDBUtil_transaction(S)
  \/ \E n \in HandleNames : getStore(n)
  \/ commit
  \/ abort
  \/ tx_oncomplete
  \/ tx_onerror
  \/ tx_onabort

\* Handlers of transactions on the open database, their getStore and commit
\* calls, and the events of the transactions.
SpecTx == InitTx /\ [][NextTx]_vars

\* ---------------------------------------- abort with operations in flight
\* The error events the host has queued at abort() are delivered, and the
\* abort event after them.
AbortDelivery ==
  /\ tx = "aborted"
  /\ \/ addObjectData_onerror
     \/ addObjectData_getAll_onerror
     \/ deleteObjectData_catch
     \/ deleteRequest_onerror
     \/ deleteObjectData_getAll_onerror
     \/ \E i \in pending : bulkAdd_onerror(i)
     \/ tx_onabort

\* The arrays handed to bulkAddObjectData: records without an id.
AbortArrays ==
  {arr \in BulkArrays : \A i \in DOMAIN arr : arr[i].id = NoKey}

\* Success events reach the requests of an active transaction only.
NextAbort ==
  \/ IndexedDBUtil_transaction({"users"})
  \/ tx_oncomplete
  \/ abort
  \/ tx_onabort
  \/ \E d \in BulkRecords : addObjectData(d)
  \/ tx = "active" /\ addObjectData_onsuccess
  \/ addObjectData_onerror
  \/ tx = "active" /\ addObjectData_getAll_onsuccess
  \/ addObjectData_getAll_onerror
  \/ \E k \in Keys : deleteObjectData(k)
  \/ tx = "active" /\ deleteObjectData_then
  \/ deleteObjectData_catch
  \/ tx = "active" /\ deleteRequest_onsuccess
  \/ deleteRequest_onerror
  \/ tx = "active" /\ deleteObjectData_getAll_onsuccess
  \/ deleteObjectData_getAll_onerror
  \/ \E arr \in AbortArrays : bulkAddObjectData(arr)
  \/ \E i \in pending : tx = "active" /\ InOrder(i) /\ bulkAdd_onsuccess(i)
  \/ \E i \in pending : InOrder(i) /\ bulkAdd_onerror(i)

\* Writes in transactions the caller may abort; what the host has queued at
\* an abort is delivered in the end.
SpecAbort == InitTx /\ [][NextAbort]_vars /\ WF_vars(AbortDelivery)

\* ------------------------------------------------------------ IndexedDBUtil
Reads == {"get", "getAll", "query", "count"}
Writes == {"add", "put", "bulkAdd", "update", "delete", "clear"}

\* The configuration of the tests of the class: version 1, a store 'users'
\* with key path 'id', autoIncrement and two indices, and no seed records.
UtilVersion == 1
UtilStores ==
  <<[name |-> "users", keyPath |-> "id", indices |-> IndexNames,
     data |-> <<>>]>>

\* A continuation of the async method in flight is queued: the promise it
\* awaits has settled.  Continuations run before the host fires its next
\* event.
Continuation ==
  \/ stage = "init" /\ dbPromise.state \in {"resolved", "rejected"}
  \/ stage = "op" /\ op = NoOp
  \/ stage = "op" /\ promise \in {"resolved", "rejected"}
  \/ stage = "commit" /\ promises[Len(promises)].state # "pending"

\* init(), up to its await: the IndexedDBError thrown when the host has no
\* storage API, else createDB(this.dbName, this.dbVersion, this.stores).
IndexedDBUtil_init ==
  /\ stage = "none"
  /\ IF ~supported
     THEN /\ open \in {"none", "done"}
          /\ outer' = [fn |-> "init", state |-> "rejected",
                       error |-> "IndexedDBError"]
          /\ UNCHANGED <<stage, dbVars, storeVars, txVars, opVars,
                         handlerVars>>
     ELSE /\ CreateDB(UtilVersion, UtilStores)
          /\ outer' = [fn |-> "init", state |-> "pending", error |-> ""]
          /\ stage' = "init"
  /\ UNCHANGED <<self_db, ret, adds>>

\* init() after its await: this.db = the handle createDB resolved with, or
\* the rejection of createDB passed on.
IndexedDBUtil_init_resume ==
  /\ stage = "init"
  /\ dbPromise.state \in {"resolved", "rejected"}
  /\ IF dbPromise.state = "resolved"
     THEN /\ self_db' = result
          /\ outer' = [outer EXCEPT !.state = "resolved"]
     ELSE /\ outer' = [outer EXCEPT !.state = "rejected",
                                    !.error = dbPromise.error]
          /\ UNCHANGED self_db
  /\ stage' = "none"
  /\ UNCHANGED <<ret, adds, dbVars, storeVars, txVars, opVars,
                 handlerVars>>

\* getDB(): this.db, or the IndexedDBError thrown when it is null.
IndexedDBUtil_getDB ==
  /\ ret' = IF self_db = NoHandle THEN NotInitialized
            ELSE [fn |-> "getDB", threw |-> "", value |-> self_db]
  /\ UNCHANGED <<self_db, outer, stage, adds, dbVars, storeVars, txVars,
                 opVars, handlerVars>>

\* A variant of close that keeps this.db.
IndexedDBUtil_close_keepsHandle ==
  /\ stage \in {"none", "init"}
  /\ tx = "none"
  /\ ret' = [fn |-> "close", threw |-> "", value |-> self_db]
  /\ connections' = connections \ {self_db}
  /\ UNCHANGED <<self_db, outer, stage, adds, storeVars, txVars, opVars,
                 handlerVars, db, dbBefore, call, repeat, open, dbPromise,
                 upgraded, seedQueue, seedAdds, supported, fired, seeded,
                 retry, result>>

\* close(): this.db.close() and this.db = null, when this.db is set; no
\* record operation is in flight.
IndexedDBUtil_close ==
  /\ stage \in {"none", "init"}
  /\ tx = "none"
  /\ ret' = [fn |-> "close", threw |-> "", value |-> self_db]
  /\ connections' = connections \ {self_db}
  /\ self_db' = NoHandle
  /\ UNCHANGED <<outer, stage, adds, storeVars, txVars, opVars, handlerVars,
                 db,
                 dbBefore, call, repeat, open, dbPromise, upgraded, seedQueue,
                 seedAdds, supported, fired, seeded, retry, result>>

\* A record operation, up to the call of the core operation:
\* tx = this.transaction(storeName, mode), which throws when this.db is null
\* or the database has no store 'users', and store = await tx.getStore(
\* storeName), which sets tx.onerror and tx.onabort and resolves.
IndexedDBUtil_operation(fn) ==
  /\ stage = "none"
  /\ tx = "none"
  /\ pc \in {"idle", "done"}
  /\ IF self_db = NoHandle \/ ~db.stores["users"].exists
     THEN /\ outer' = [fn |-> fn, state |-> "rejected",
                       error |-> IF self_db = NoHandle THEN "IndexedDBError"
                                 ELSE "NotFoundError"]
          /\ UNCHANGED <<stage, txVars, opVars, handlerVars>>
     ELSE /\ outer' = [fn |-> fn, state |-> "pending", error |-> ""]
          /\ stage' = "op"
          /\ NewHandler({"users"})
          /\ promises' = <<[kind |-> "getStore", name |-> "users",
                            live |-> TRUE, state |-> "resolved",
                            value |-> "users", error |-> NoValue]>>
          /\ oncomplete' = 0
          /\ onerror' = 1
          /\ onabort' = 1
  /\ UNCHANGED <<storeVars, dbVars, self_db, ret, adds>>

\* A variant of the write methods that returns without await tx.commit().
IndexedDBUtil_resume_uncommitted ==
  /\ stage = "op"
  /\ promise \in {"resolved", "rejected"}
  /\ IF promise = "rejected"
     THEN outer' = [outer EXCEPT !.state = "rejected", !.error = error.name]
     ELSE outer' = [outer EXCEPT !.state = "resolved"]
  /\ stage' = "none"
  /\ UNCHANGED <<handlerVars, storeVars, txVars, opVars, dbVars, self_db,
                 ret, adds>>

\* The method after the await of the core operation: its rejection is
\* passed on; a read returns the result; a write calls tx.commit(), which
\* sets tx.oncomplete, tx.onerror and tx.onabort, and awaits it.
IndexedDBUtil_resume ==
  /\ stage = "op"
  /\ promise \in {"resolved", "rejected"}
  /\ IF promise = "rejected"
     THEN /\ outer' = [outer EXCEPT !.state = "rejected",
                                    !.error = error.name]
          /\ stage' = "none"
          /\ UNCHANGED handlerVars
     ELSE IF outer.fn \in Reads
     THEN /\ outer' = [outer EXCEPT !.state = "resolved"]
          /\ stage' = "none"
          /\ UNCHANGED handlerVars
     ELSE /\ promises' = Append(promises,
               [kind |-> "commit", name |-> "", live |-> tx = "active",
                state |-> "pending", value |-> "", error |-> NoValue])
          /\ oncomplete' = Len(promises) + 1
          /\ onerror' = Len(promises) + 1
          /\ onabort' = Len(promises) + 1
          /\ stage' = "commit"
          /\ UNCHANGED <<outer, scope, txEvent>>
  /\ UNCHANGED <<storeVars, txVars, opVars, dbVars, self_db, ret, adds>>

\* A write method after await tx.commit(): return result, or the rejection
\* of commit passed on.
IndexedDBUtil_commit_resume ==
  /\ stage = "commit"
  /\ promises[Len(promises)].state # "pending"
  /\ outer' = IF promises[Len(promises)].state = "resolved"
              THEN [outer EXCEPT !.state = "resolved"]
              ELSE [outer EXCEPT !.state = "rejected",
                                 !.error = "TransactionError"]
  /\ stage' = "none"
  /\ UNCHANGED <<handlerVars, storeVars, txVars, opVars, dbVars, self_db,
                 ret, adds>>

\* The records and arrays handed to the write methods.
UtilRecords == {r \in Records : r.id \in {NoKey, 1} /\ r.email = 1}
UtilArrays == {arr \in AbortArrays : Len(arr) = 1 /\ arr[1].email = 2}

\* The core operation a method calls when getStore has resolved.
CoreCall ==
  \/ outer.fn = "get" /\ getObjectData(1)
  \/ outer.fn = "getAll" /\ getAllObjectData
  \/ outer.fn = "query" /\
       \E o \in {q \in QueryOptions : q.direction = "next" /\ q.index = ""
                                       /\ q.limit \in {NoLimit, 1}
                                       /\ q.offset = 0} :
         queryObjectData(o)
  \/ outer.fn = "count" /\ \E kr \in CountRanges : countObjectData(kr)
  \/ outer.fn = "add" /\ \E d \in UtilRecords : addObjectData(d)
  \/ outer.fn = "put" /\ \E d \in UtilRecords : putObjectData(d)
  \/ outer.fn = "bulkAdd" /\ \E arr \in UtilArrays : bulkAddObjectData(arr)
  \/ outer.fn = "update" /\ \E d \in UtilRecords : updateObjectData("id", 1, d)
  \/ outer.fn = "delete" /\ deleteObjectData(1)
  \/ outer.fn = "clear" /\ clearObjectStore

\* The events the host fires at the requests of the core operations.
RequestEvent ==
  \/ getObjectData_onsuccess
  \/ getObjectData_onerror
  \/ getAllObjectData_onsuccess
  \/ getAllObjectData_onerror
  \/ queryObjectData_onsuccess
  \/ queryObjectData_onerror
  \/ countObjectData_onsuccess
  \/ countObjectData_onerror
  \/ addObjectData_onsuccess
  \/ addObjectData_onerror
  \/ addObjectData_getAll_onsuccess
  \/ addObjectData_getAll_onerror
  \/ putObjectData_onsuccess
  \/ putObjectData_onerror
  \/ \E i \in pending : InOrder(i) /\ bulkAdd_onsuccess(i)
  \/ \E i \in pending : InOrder(i) /\ bulkAdd_onerror(i)
  \/ updateObjectData_then
  \/ updateObjectData_catch
  \/ cursorRequest_onsuccess
  \/ cursorRequest_onerror
  \/ updateRequest_onsuccess
  \/ updateRequest_onerror
  \/ updateObjectData_getAll_onsuccess
  \/ updateObjectData_getAll_onerror
  \/ deleteObjectData_then
  \/ deleteObjectData_catch
  \/ deleteRequest_onsuccess
  \/ deleteRequest_onerror
  \/ deleteObjectData_getAll_onsuccess
  \/ deleteObjectData_getAll_onerror
  \/ clearObjectStore_onsuccess
  \/ clearObjectStore_onerror

\* The events the host fires at the open request of init(): no other
\* connection is open, and the configuration has no seed records.
OpenEvent ==
  \/ createDB_onupgradeneeded
  \/ createDB_onerror
  \/ createDB_onsuccess

\* A host that may lack the storage API, and no database.
InitUtil ==
  /\ objs = {}
  /\ keyGen = 1
  /\ tx = "none"
  /\ committed = [objs |-> {}, keyGen |-> 1]
  /\ pre = {}
  /\ Fresh
  /\ supported \in BOOLEAN
  /\ Unopened
  /\ FreshHandler
  /\ FreshUtil

\* The continuations that are queued run before anything else.
NextUtil ==
  \/ Continuation /\ IndexedDBUtil_init_resume
  \/ Continuation /\ CoreCall
  \/ Continuation /\ IndexedDBUtil_resume
  \/ Continuation /\ IndexedDBUtil_commit_resume
  \/ ~Continuation /\ IndexedDBUtil_init
  \/ ~Continuation /\ IndexedDBUtil_getDB
  \/ ~Continuation /\ IndexedDBUtil_close
  \/ ~Continuation /\ IndexedDBUtil_transaction({"users"})
  \/ ~Continuation /\ \E fn \in Reads \cup Writes : IndexedDBUtil_operation(fn)
  \/ ~Continuation /\ OpenEvent
  \/ ~Continuation /\ RequestEvent
  \/ ~Continuation /\ tx_oncomplete

\* An IndexedDBUtil of the test configuration: its lifecycle and its record
\* operations, one after the other.
SpecUtil == InitUtil /\ [][NextUtil]_vars

\* init(), createDB and openDB called by the application on a host that
\* may lack the storage API; a continuation that is queued may be overtaken
\* here, by events that do not concern the request of init().
NextCompat ==
  \/ IndexedDBUtil_init
  \/ IndexedDBUtil_init_resume
  \/ NextOpen

SpecCompat == InitUtil /\ [][NextCompat]_vars

\* ------------------------------------------ IndexedDBUtil.add, concurrently
\* Calls of add('users', data) made while earlier ones are in flight.  Each
\* call has its own transaction, handler functions and promises, kept in
\* adds.call[c]; objs and keyGen are the store of the database, and
\* adds.call[c].objs and .keyGen the store as the transaction of call c
\* sees it.  adds.jobs are the continuations queued, adds.ran the calls in
\* the order the host started their transactions.
AddRecords == {r \in Records : r.id \in {NoKey, 1, 2} /\ r.email \in {1, 2}}

TxFinished(c) == adds.call[c].tx \in {"complete", "aborted"}

\* A variant of the host that starts a transaction whatever others run.
IDBTransaction_mayStart_unordered(c) == TRUE

\* The host starts a readwrite transaction on 'users' when every
\* transaction on the store that was created before it has finished.
IDBTransaction_mayStart(c) ==
  \A d \in Callers :
    (d < c /\ adds.call[d].tx # "none") => TxFinished(d)

\* Continuations run before the host does anything else.
HostTurn == adds.jobs = <<>>

\* add(storeName, data), up to its first await: this.transaction throws
\* when this.db is null or the store is missing; tx.getStore sets tx.onerror
\* and tx.onabort and resolves with the store.  The calls are numbered in
\* the order they are made, and each but the first is made while one made
\* before it has not settled.
IndexedDBUtil_add(c, data) ==
  /\ adds.call[c].state = "none"
  /\ \A d \in Callers : d < c => adds.call[d].state # "none"
  /\ c = 1 \/ \E d \in Callers : d < c /\ adds.call[d].state = "pending"
  /\ IF self_db = NoHandle \/ ~db.stores["users"].exists
     THEN adds' = [adds EXCEPT
            !.call[c] = [@ EXCEPT !.state = "rejected", !.stage = "done",
                                  !.data = data,
                                  !.error = IF self_db = NoHandle
                                            THEN "IndexedDBError"
                                            ELSE "NotFoundError"]]
     ELSE adds' = [adds EXCEPT
            !.call[c] = [@ EXCEPT !.state = "pending", !.stage = "getStore",
                                  !.data = data, !.tx = "created"],
            !.jobs = Append(@, c)]
  /\ UNCHANGED <<self_db, outer, stage, ret, storeVars, txVars, opVars,
                 dbVars, handlerVars>>

\* add after await tx.getStore: addObjectData calls store.add(data).
IndexedDBUtil_add_getStore(c) ==
  /\ adds.jobs # <<>> /\ Head(adds.jobs) = c
  /\ adds.call[c].stage = "getStore"
  /\ adds' = [adds EXCEPT !.call[c].stage = "add", !.jobs = Tail(@)]
  /\ UNCHANGED <<self_db, outer, stage, ret, storeVars, txVars, opVars,
                 dbVars, handlerVars>>

\* The host starts the transaction of call c: it sees the store as the
\* transactions before it have left it.
IDBTransaction_start(c) ==
  /\ HostTurn
  /\ adds.call[c].tx = "created"
  /\ IDBTransaction_mayStart(c)
  /\ adds' = [adds EXCEPT
       !.call[c] = [@ EXCEPT !.tx = "started", !.objs = objs,
                             !.keyGen = keyGen],
       !.ran = Append(@, c)]
  /\ UNCHANGED <<self_db, outer, stage, ret, storeVars, txVars, opVars,
                 dbVars, handlerVars>>

\* request.onsuccess of store.add: the record is stored, and
\* getAllObjectData(store) calls store.getAll().
IndexedDBUtil_add_onsuccess(c) ==
  /\ HostTurn
  /\ adds.call[c].tx = "started"
  /\ adds.call[c].stage = "add"
  /\ LET a == adds.call[c]
     IN  /\ AddOk(a.objs, a.keyGen, a.data)
         /\ adds' = [adds EXCEPT
              !.call[c] = [@ EXCEPT
                 !.stage = "getAll",
                 !.objs = StoreWith(a.objs, a.keyGen, a.data),
                 !.keyGen = GenAfter(KeyFor(a.data, a.keyGen), a.keyGen)]]
  /\ UNCHANGED <<self_db, outer, stage, ret, storeVars, txVars, opVars,
                 dbVars, handlerVars>>

\* request.onerror of store.add, which the host refuses for the key or the
\* unique index: reject(new IndexedDBError(...)); the error event is not
\* cancelled, tx.onerror (of getStore) rejects a settled promise, and the
\* host aborts the transaction.
IndexedDBUtil_add_onerror(c) ==
  /\ HostTurn
  /\ adds.call[c].tx = "started"
  /\ adds.call[c].stage = "add"
  /\ ~AddOk(adds.call[c].objs, adds.call[c].keyGen, adds.call[c].data)
  /\ adds' = [adds EXCEPT
       !.call[c] = [@ EXCEPT !.stage = "failed", !.tx = "aborting",
                             !.error = "IndexedDBError"],
       !.jobs = Append(@, c)]
  /\ UNCHANGED <<self_db, outer, stage, ret, storeVars, txVars, opVars,
                 dbVars, handlerVars>>

\* add after await addObjectData has thrown: the rejection is passed on,
\* and tx.commit() is never called.
IndexedDBUtil_add_throw(c) ==
  /\ adds.jobs # <<>> /\ Head(adds.jobs) = c
  /\ adds.call[c].stage = "failed"
  /\ adds' = [adds EXCEPT
       !.call[c] = [@ EXCEPT !.stage = "done", !.state = "rejected"],
       !.jobs = Tail(@)]
  /\ UNCHANGED <<self_db, outer, stage, ret, storeVars, txVars, opVars,
                 dbVars, handlerVars>>

\* tx.onabort (of getStore) rejects a settled promise; what the transaction
\* has written is discarded.
IDBTransaction_onabort(c) ==
  /\ HostTurn
  /\ adds.call[c].tx = "aborting"
  /\ adds' = [adds EXCEPT !.call[c].tx = "aborted"]
  /\ UNCHANGED <<self_db, outer, stage, ret, storeVars, txVars, opVars,
                 dbVars, handlerVars>>

\* request.onsuccess of store.getAll: resolve(request.result), and
\* addObjectData resolves with it.
IndexedDBUtil_add_getAll_onsuccess(c) ==
  /\ HostTurn
  /\ adds.call[c].tx = "started"
  /\ adds.call[c].stage = "getAll"
  /\ adds' = [adds EXCEPT
       !.call[c] = [@ EXCEPT !.stage = "result",
                             !.result = SortByKey(adds.call[c].objs)],
       !.jobs = Append(@, c)]
  /\ UNCHANGED <<self_db, outer, stage, ret, storeVars, txVars, opVars,
                 dbVars, handlerVars>>

\* add after await addObjectData: tx.commit() sets tx.oncomplete,
\* tx.onerror and tx.onabort.
IndexedDBUtil_add_commit(c) ==
  /\ adds.jobs # <<>> /\ Head(adds.jobs) = c
  /\ adds.call[c].stage = "result"
  /\ adds' = [adds EXCEPT !.call[c].stage = "commit", !.jobs = Tail(@)]
  /\ UNCHANGED <<self_db, outer, stage, ret, storeVars, txVars, opVars,
                 dbVars, handlerVars>>

\* The transaction has no request left and commits: the store of the
\* database becomes what the transaction wrote; tx.oncomplete resolves
\* the promise of commit.
IDBTransaction_oncomplete(c) ==
  /\ HostTurn
  /\ adds.call[c].tx = "started"
  /\ adds.call[c].stage = "commit"
  /\ objs' = adds.call[c].objs
  /\ keyGen' = adds.call[c].keyGen
  /\ adds' = [adds EXCEPT
       !.call[c] = [@ EXCEPT !.stage = "committed", !.tx = "complete"],
       !.jobs = Append(@, c)]
  /\ UNCHANGED <<self_db, outer, stage, ret, txVars, opVars, dbVars,
                 handlerVars>>

\* add after await tx.commit(): return result.
IndexedDBUtil_add_return(c) ==
  /\ adds.jobs # <<>> /\ Head(adds.jobs) = c
  /\ adds.call[c].stage = "committed"
  /\ adds' = [adds EXCEPT
       !.call[c] = [@ EXCEPT !.stage = "done", !.state = "resolved"],
       !.jobs = Tail(@)]
  /\ UNCHANGED <<self_db, outer, stage, ret, storeVars, txVars, opVars,
                 dbVars, handlerVars>>

\* close() between the calls: this.db = null, and the calls made after it
\* throw.
NextConcurrent ==
  \/ \E c \in Callers, data \in AddRecords : IndexedDBUtil_add(c, data)
  \/ \E c \in Callers : IndexedDBUtil_add_getStore(c)
  \/ \E c \in Callers : IDBTransaction_start(c)
  \/ \E c \in Callers : IndexedDBUtil_add_onsuccess(c)
  \/ \E c \in Callers : IndexedDBUtil_add_onerror(c)
  \/ \E c \in Callers : IndexedDBUtil_add_throw(c)
  \/ \E c \in Callers : IDBTransaction_onabort(c)
  \/ \E c \in Callers : IndexedDBUtil_add_getAll_onsuccess(c)
  \/ \E c \in Callers : IndexedDBUtil_add_commit(c)
  \/ \E c \in Callers : IDBTransaction_oncomplete(c)
  \/ \E c \in Callers : IndexedDBUtil_add_return(c)
  \/ HostTurn /\ IndexedDBUtil_close

\* An initialized IndexedDBUtil whose add is called again before the calls
\* made earlier have settled.
SpecConcurrent == InitTx /\ [][NextConcurrent]_vars

\* ================================================================== claims
Elems(seq) == {seq[i] : i \in DOMAIN seq}
SortedByKey(seq) == \A i \in 1..(Len(seq) - 1) : seq[i].id < seq[i + 1].id

\* max(0, min(L, M - O)) when L is set, else max(0, M - O).
PageLen(M, O, L) ==
  IF L # NoLimit THEN Max2(0, Min2(L, M - O)) ELSE Max2(0, M - O)

\* C1: a query of the store or of an index it has, with offset O >= 0 and
\* limit L >= 1 or absent, which the host does not fail, resolves with the records at positions O+1 .. O+L of the
\* traversal (to its end when L is absent), in traversal order; the length
\* is max(0, min(L, M-O)), or max(0, M-O) without a limit.
C1_QueryReturnsPage ==
  (op.name = "query" /\ pc = "done" /\ ~hostError /\ options.limit # 0
     /\ IndexFound(options.index)) =>
    LET t == Traversal(pre, options.index, options.direction)
        n == PageLen(Len(t), options.offset, options.limit)
    IN  /\ promise = "resolved"
        /\ Len(value) = n
        /\ \A i \in 1..n : value[i] = t[options.offset + i]

\* The scenario of the specification: limit 2, offset 1 over the records of
\* keys 1, 2, 3 in primary-key order gives the records of keys 2 and 3.
C1_Witness ==
  /\ op.name = "query" /\ promise = "resolved"
  /\ options = [index |-> "", direction |-> "next", limit |-> 2, offset |-> 1,
                keyRange |-> NoRange]
  /\ KeySet(pre) = {1, 2, 3}
  /\ Len(value) = 2 /\ value[1].id = 2 /\ value[2].id = 3

\* C2: a query with limit 0 resolves with an empty list.
C2_LimitZeroEmpty ==
  (op.name = "query" /\ promise = "resolved" /\ options.limit = 0) =>
    value = <<>>

\* C3: once the host has fired a cursor error at a query, its promise is
\* rejected with an IndexedDBError, and is not resolved with what was
\* collected.
C3_CursorErrorRejects ==
  (op.name = "query" /\ hostError) =>
    (promise = "rejected" /\ error.name = "IndexedDBError")

\* The cursor error comes after records were collected.
C3_Witness ==
  /\ op.name = "query" /\ hostError /\ promise = "rejected"
  /\ Len(results) >= 1

\* C4: deleteObjectData of a key that is present, which the host does not
\* fail, resolves with [the record stored under the key, the records that
\* remain], the latter without the key and one shorter than the store was.
C4_DeleteReturnsPair ==
  (op.name = "delete" /\ pc = "done" /\ ~hostError
     /\ op.key \in KeySet(pre)) =>
    /\ promise = "resolved"
    /\ Len(value) = 2
    /\ value[1] \in pre /\ value[1].id = op.key
    /\ Len(value[2]) = Cardinality(pre) - 1
    /\ Elems(value[2]) = pre \ {value[1]}
    /\ SortedByKey(value[2])
    /\ objs = pre \ {value[1]}

C4_Witness ==
  /\ op.name = "delete" /\ promise = "resolved"
  /\ Cardinality(pre) = 2 /\ Len(value[2]) = 1

\* C5: deleteObjectData of a key that is absent never issues a delete
\* request and, the host not failing the get, rejects with the not-found
\* IndexedDBError and leaves the store and its transaction as they were.
C5_DeleteAbsentRejects ==
  (op.name = "delete" /\ op.key \notin KeySet(pre)) =>
    /\ ~deleteIssued
    /\ (pc = "done" /\ ~hostError) =>
         (promise = "rejected" /\ error = NotFound /\ objs = pre)

C5_Witness ==
  /\ op.name = "delete" /\ pc = "done" /\ op.key \notin KeySet(pre)
  /\ promise = "rejected" /\ error = NotFound
  /\ pre # {} /\ objs = pre /\ tx = "active"

Violates(S, data) ==
  data.id \in KeySet(S) \/ \E r \in S : r.email = data.email

\* C7, as claimed: an addObjectData that breaks a constraint rejects with an
\* IndexedDBError and the store is as it was before the call.
C7_Original ==
  (op.name = "add" /\ pc = "done" /\ Violates(pre, op.data)) =>
    (promise = "rejected" /\ error.name = "IndexedDBError" /\ objs = pre)

\* C7, amended: an addObjectData that breaks a constraint rejects with an
\* IndexedDBError, and its transaction is aborted: the store is as it was
\* when the transaction was opened.
C7_AddFailureAborts ==
  (op.name = "add" /\ pc = "done" /\ Violates(pre, op.data)) =>
    /\ promise = "rejected" /\ error.name = "IndexedDBError"
    /\ tx = "none"
    /\ objs = committed.objs

\* The failed add undoes an earlier write of its transaction.
C7_Witness ==
  /\ op.name = "add" /\ pc = "done" /\ Violates(pre, op.data)
  /\ promise = "rejected" /\ objs = committed.objs /\ objs # pre

\* C8: putObjectData resolves with the key alone, the record's own or a new
\* one; a getObjectData of that key then resolves with the record that was
\* put, under that key; a put onto a key that was present leaves the number
\* of records as it was.
C8_PutRoundTrip ==
  /\ (op.name = "put" /\ promise = "resolved") =>
       /\ value \in Keys
       /\ op.data.id # NoKey => value = op.data.id
       /\ op.data.id = NoKey => value \notin KeySet(pre)
       /\ value \in KeySet(pre) => Cardinality(objs) = Cardinality(pre)
       /\ value \notin KeySet(pre) => Cardinality(objs) = Cardinality(pre) + 1
  /\ (op.name = "get" /\ promise = "resolved" /\ op.data # Undefined) =>
       value = [op.data EXCEPT !.id = op.key]

\* The get reads back a record whose key the host assigned.
C8_Witness ==
  /\ op.name = "get" /\ promise = "resolved"
  /\ op.data # Undefined /\ op.data.id = NoKey
  /\ value.id = op.key /\ value.email = op.data.email

\* C9: bulkAddObjectData resolves only when every add has succeeded, with
\* as many keys as inputs, the key at position i being the one input i is
\* stored under, whatever the order of the success events; the store has
\* grown by the number of inputs; without a failure of the host it resolves.
C9_BulkKeysInInputOrder ==
  /\ (op.name = "bulkAdd" /\ pc = "done" /\ ~hostError) =>
       promise = "resolved"
  /\ (op.name = "bulkAdd" /\ promise = "resolved") =>
       /\ pending = {} /\ completed = Len(op.arr)
       /\ Len(value) = Len(op.arr)
       /\ \A i \in DOMAIN op.arr :
            /\ value[i] \in Keys \ KeySet(pre)
            /\ op.arr[i].id # NoKey => value[i] = op.arr[i].id
            /\ [op.arr[i] EXCEPT !.id = value[i]] \in objs
       /\ Cardinality(objs) = Cardinality(pre) + Len(op.arr)

\* The second input's success arrived first and took the lower key.
C9_Witness ==
  /\ op.name = "bulkAdd" /\ promise = "resolved" /\ Len(op.arr) = 2
  /\ op.arr[1].id = NoKey /\ op.arr[2].id = NoKey
  /\ value[1] > value[2]

Matches(S, kp, key) == {r \in S : Field(r, kp) = key}

\* C11: updateObjectData on a store in which no record matches never opens
\* a cursor and, the host not failing the fetch, rejects with the not-found
\* IndexedDBError and leaves the store and its transaction as they were.
C11_UpdateAbsentRejects ==
  (op.name = "update" /\ Matches(pre, keyPath, op.key) = {}) =>
    /\ ~cursorOpened
    /\ (pc = "done" /\ ~hostError) =>
         /\ promise = "rejected" /\ error = UpdateNotFound
         /\ objs = pre

C11_Witness ==
  /\ op.name = "update" /\ pc = "done" /\ pre # {}
  /\ Matches(pre, keyPath, op.key) = {}
  /\ promise = "rejected" /\ error = UpdateNotFound /\ objs = pre

\* The match of lowest primary key.
FirstMatch(S, kp, key) ==
  CHOOSE m \in Matches(S, kp, key) :
    \A r \in Matches(S, kp, key) : m.id <= r.id

\* C12: when records match, an updateObjectData that the host does not
\* refuse resolves; one that resolves has replaced the match of lowest
\* primary key, and no other record, with newRecord, has stopped its cursor
\* on that record, and resolves with the records of the store as it then is.
C12_UpdateReplacesFirst ==
  /\ (op.name = "update" /\ pc = "done" /\ ~hostError /\ ~thrown
        /\ Matches(pre, keyPath, op.key) # {}) => promise = "resolved"
  /\ (op.name = "update" /\ promise = "resolved") =>
       /\ Matches(pre, keyPath, op.key) # {}
       /\ LET m == FirstMatch(pre, keyPath, op.key)
          IN  /\ objs = (pre \ {m}) \cup {op.data}
              /\ op.data.id = m.id
              /\ SortByKey(pre)[cursor] = m
       /\ value = SortByKey(objs)

\* Two records match, and the one of lowest key gets a new email.
C12_Witness ==
  /\ op.name = "update" /\ promise = "resolved"
  /\ Cardinality(Matches(pre, keyPath, op.key)) >= 2
  /\ op.data \notin pre /\ op.data \in objs

\* C13: getObjectData of a key under which nothing is stored resolves with
\* undefined unless the host fails the request; a getObjectData rejects
\* only after an error of the host.
C13_GetAbsentResolves ==
  /\ (op.name = "get" /\ pc = "done" /\ ~hostError
        /\ op.key \notin KeySet(pre)) =>
       (promise = "resolved" /\ value = Undefined)
  /\ (op.name = "get" /\ promise = "rejected") => hostError

C13_Witness ==
  /\ op.name = "get" /\ promise = "resolved" /\ value = Undefined
  /\ pre # {} /\ op.key \notin KeySet(pre)

\* C14: once clearObjectStore has resolved, with no value, the store holds
\* no record, whatever it held: its count is 0 and its getAll is empty;
\* without an error of the host the promise resolves.
C14_ClearEmpties ==
  /\ (op.name = "clear" /\ pc = "done" /\ ~hostError) => promise = "resolved"
  /\ (op.name = "clear" /\ promise = "resolved") =>
       /\ value = Undefined
       /\ objs = {}
       /\ StoreCount(objs) = 0
       /\ SortByKey(objs) = <<>>

C14_Witness ==
  /\ op.name = "clear" /\ promise = "resolved"
  /\ Cardinality(pre) >= 2 /\ objs = {}

\* The names, key paths and index names of the stores of a database.
Schema(d) ==
  [n \in StoreNames |-> [exists |-> d.stores[n].exists,
                         keyPath |-> d.stores[n].keyPath,
                         indexNames |-> d.stores[n].indexNames]]

MissingByKeyPath(data, st) ==
  LET Missing(item) ==
        PrimaryKey(item, st.keyPath, st.keyGen) \notin StoreKeys(st)
  IN  SelectSeq(data, Missing)

\* C16: the seed records handed to objectStore.add are those whose primary
\* key, the value at the key path of the store, is not a primary key of the
\* store.
C16_SeedsByPrimaryKey ==
  open = "seed_tx" =>
    seedAdds = MissingByKeyPath(seedQueue[1].data, db.stores[seedQueue[1].name])

\* C17: a createDB call never removes a store or an index and never changes
\* the key path of a store that exists; without an upgrade the stores and
\* indices stay as they were, even when the configuration names new ones;
\* after an upgrade every store and every index of the configuration exists.
C17_StructureOnlyGrows ==
  /\ \A n \in StoreNames :
       dbBefore.stores[n].exists =>
         /\ db.stores[n].exists
         /\ db.stores[n].keyPath = dbBefore.stores[n].keyPath
         /\ dbBefore.stores[n].indexNames \subseteq db.stores[n].indexNames
  /\ ~upgraded => Schema(db) = Schema(dbBefore)
  /\ (upgraded /\ open # "done") =>
       \A i \in DOMAIN call.stores :
         /\ db.stores[call.stores[i].name].exists
         /\ call.stores[i].indices
              \subseteq db.stores[call.stores[i].name].indexNames

\* An upgrade adds an index to a store that exists and holds records, under
\* a configuration that names another key path for it.
C17_Witness ==
  /\ upgraded /\ open = "done" /\ dbPromise.state = "resolved"
  /\ dbBefore.stores["users"].exists
  /\ dbBefore.stores["users"].records # {}
  /\ dbBefore.stores["users"].indexNames = {}
  /\ db.stores["users"].indexNames = {"email"}
  /\ call.stores[1].keyPath # db.stores["users"].keyPath

\* C18: a getStore(name) on a handler whose transaction is active resolves
\* with the store when name is in the scope the transaction was made for,
\* and rejects with a StoreNotFoundError (STORE_NOT_FOUND) when it is not,
\* be there a store of the name in the database or not; the scope of a
\* handler changes at no step: only a new handler has another.
C18_GetStoreByScope ==
  /\ [](\A i \in DOMAIN promises :
          (promises[i].kind = "getStore" /\ promises[i].live) =>
            IF promises[i].name \in scope
            THEN /\ promises[i].state = "resolved"
                 /\ promises[i].value = promises[i].name
            ELSE /\ promises[i].state = "rejected"
                 /\ promises[i].error = StoreNotFoundError)
  /\ [][scope' # scope => (tx # "active" /\ tx' = "active"
                             /\ promises' = <<>>)]_vars

\* A store of the database that is outside the scope is refused, and a
\* store inside it is handed out.
C18_Witness ==
  /\ scope = {"users"} /\ Len(promises) = 2
  /\ promises[1].name = "products" /\ promises[1].state = "rejected"
  /\ promises[1].error = StoreNotFoundError
  /\ db.stores["products"].exists
  /\ promises[2].name = "users" /\ promises[2].state = "resolved"

\* C19: the promise of a commit() is resolved only when the complete event
\* has fired, hence never for a transaction that has aborted; the promise
\* of a commit() made on an active transaction, whose callbacks no later
\* call on the handler has replaced, is resolved once complete has fired
\* and is rejected with a TransactionError once error or abort has fired.
C19_CommitFollowsTransaction ==
  \A i \in DOMAIN promises :
    promises[i].kind = "commit" =>
      /\ promises[i].state = "resolved" => txEvent = "complete"
      /\ (i = Len(promises) /\ promises[i].live) =>
           /\ txEvent = "complete" => promises[i].state = "resolved"
           /\ txEvent \in {"error", "abort"} =>
                /\ promises[i].state = "rejected"
                /\ promises[i].error = TransactionError

\* A commit() is rejected by the abort event that follows an abort().
C19_Witness ==
  /\ Len(promises) = 2 /\ txEvent = "abort" /\ tx = "none"
  /\ promises[1].kind = "getStore" /\ promises[1].state = "resolved"
  /\ promises[2].kind = "commit" /\ promises[2].state = "rejected"
  /\ promises[2].error = TransactionError

\* An operation is in flight: a request of it is pending.
InFlight == pc \notin {"idle", "done"}

\* C20: once abort() has been called, no write of the transaction is in the
\* store; the promise of an operation that was in flight is not resolved
\* from then on, and in the end it is rejected.
C20_AbortRejectsInFlight ==
  /\ [](tx = "aborted" =>
          /\ objs = committed.objs
          /\ InFlight => promise = "pending")
  /\ [][(tx = "aborted" /\ InFlight) => promise' # "resolved"]_vars
  /\ (tx = "aborted" /\ InFlight) ~>
       (promise = "rejected" /\ ~InFlight /\ objs = committed.objs)

\* abort() comes after the add of an addObjectData has been served and
\* while its getAll is pending: the record is gone.
C20_Witness ==
  /\ tx = "aborted" /\ op.name = "add" /\ pc = "add_getAll"
  /\ promise = "pending" /\ objs = committed.objs /\ objs = pre

\* The success event the host fires next lands the cursor on a record.
OnRecord ==
  /\ pc = "query"
  /\ cursor <= Len(Traversal(objs, options.index, options.direction))

\* C29: throughout a query, skipped <= offset; nothing is collected while
\* skipped < offset; the collected count is the length of the result list;
\* with a limit L >= 1 the collected count never exceeds L; and the success
\* event that lands the cursor on a record when L records are collected
\* resolves the promise with them and leaves the cursor where it is.
C29_TraversalInvariants ==
  /\ [](op.name = "query" =>
          /\ skipped <= options.offset
          /\ (skipped < options.offset => counted = 0 /\ results = <<>>)
          /\ counted = Len(results)
          /\ (options.limit >= 1 => counted <= options.limit))
  /\ [][(OnRecord /\ options.limit >= 1 /\ counted = options.limit
           /\ skipped = options.offset /\ ~hostError') =>
          (promise' = "resolved" /\ value' = results /\ pc' = "done"
             /\ cursor' = cursor /\ results' = results)]_vars

\* A query with offset 1 and limit 1 has skipped one record, collected one
\* and come upon a third: it has resolved with the one it collected.
C29_Witness ==
  /\ op.name = "query" /\ promise = "resolved"
  /\ options.offset = 1 /\ options.limit = 1
  /\ skipped = 1 /\ counted = 1 /\ Len(value) = 1
  /\ cursor = 3 /\ Cardinality(pre) = 3

\* C22: every error the host raises at a record operation, be it an error
\* event or the refusal of cursor.update inside updateObjectData, rejects
\* the promise of the operation with an IndexedDBError: the promise is not
\* left pending once the operation has no request left.
C22_HostErrorsReject ==
  (hostError \/ thrown) =>
    (promise = "rejected" /\ error.name = "IndexedDBError")

\* C23: a query given an index and a key range resolves with records whose
\* index key lies inside the key range only.
C23_QueryWithinKeyRange ==
  (op.name = "query" /\ promise = "resolved" /\ options.index # ""
     /\ options.keyRange # NoRange) =>
    \A i \in DOMAIN value :
      Includes(options.keyRange, SourceKey(value[i], options.index))

\* C24: once the open request of a createDB or openDB call has fired an
\* error event or a blocked event, the promise of the call is rejected with
\* an IndexedDBError, and stays so: the success event that follows a blocked
\* event when the other connections are closed does not resolve it.
C24_OpenFailureRejects ==
  (fired \cap {"error", "blocked"} # {}) =>
    dbPromise = [state |-> "rejected", error |-> "IndexedDBError"]

\* A createDB call was blocked by the connection of an earlier call; after
\* that connection was closed the upgrade ran, the request succeeded and a
\* store was seeded, and the promise is rejected still.
C24_Witness ==
  /\ call.fn = "createDB"
  /\ {"blocked", "upgradeneeded", "success"} \subseteq fired
  /\ open = "done" /\ seeded # {}
  /\ dbPromise.state = "rejected"

\* The request of the call succeeded and the seeding that followed failed.
SeedingFailed ==
  /\ open = "done" /\ dbPromise.state = "rejected"
  /\ "success" \in fired /\ "blocked" \notin fired

\* C25: a createDB call whose seeding fails (a seed insert is refused, the
\* fetch of the existing records fails, or the transaction cannot be opened
\* on a configured store) rejects with a TransactionError.
C25_SeedFailureIsTransactionError ==
  SeedingFailed => dbPromise.error = "TransactionError"

\* Another record of the store has the fields of r under another key.
Duplicated(r, records) ==
  \E q \in records : q # r /\ q.email = r.email /\ q.age = r.age

C27_HandleHeldUntilClose ==
  /\ [](self_db # NoHandle => self_db \in connections)
  /\ [][/\ self_db' # self_db =>
             \/ /\ outer.fn = "init" /\ outer'.state = "resolved"
                /\ self_db' = result /\ self_db' # NoHandle
             \/ ret'.fn = "close" /\ self_db' = NoHandle
        /\ (ret' # ret /\ ret'.fn = "getDB") =>
             /\ self_db' = self_db
             /\ IF self_db = NoHandle
                THEN ret'.threw = "IndexedDBError"
                ELSE ret'.threw = "" /\ ret'.value = self_db
        /\ (ret' # ret /\ ret'.fn = "transaction" /\ self_db = NoHandle) =>
             /\ ret'.threw = "IndexedDBError"
             /\ UNCHANGED <<tx, pc, op, scope, promises, objs, connections>>
        /\ (stage = "none" /\ outer' # outer /\ self_db = NoHandle
            /\ outer'.fn \in Reads \cup Writes) =>
             /\ outer'.state = "rejected"
             /\ outer'.error = "IndexedDBError"
             /\ UNCHANGED <<tx, pc, op, scope, promises, objs, connections>>
        /\ (ret' # ret /\ ret'.fn = "close" /\ self_db = NoHandle) =>
             UNCHANGED <<self_db, connections, db, open, tx, objs>>]_vars

\* init() has resolved, close() has dropped the handle and closed the
\* connection, and a write called after it was refused.
C27_Witness ==
  /\ self_db = NoHandle
  /\ "success" \in fired
  /\ connections = {}
  /\ outer.fn \in Writes
  /\ outer.state = "rejected"
  /\ outer.error = "IndexedDBError"

\* C28: on a host without the storage API, createDB, openDB and init() fail
\* with an IndexedDBError, and no open request is issued: none is pending, no
\* event of one has fired, and there is neither a database nor a connection.
C28_UnsupportedHostFails ==
  ~supported =>
    /\ open = "none"
    /\ fired = {}
    /\ connections = {}
    /\ db = NoDatabase
    /\ call.fn # "" =>
         dbPromise = [state |-> "thrown", error |-> "IndexedDBError"]
    /\ outer.fn = "init" =>
         outer.state = "rejected" /\ outer.error = "IndexedDBError"

\* createDB, or openDB, has been called on such a host and has thrown.
C28_Witness ==
  /\ ~supported
  /\ call.fn \in {"createDB", "openDB"}
  /\ dbPromise.state = "thrown"

\* C21, as stated: the promise of a record operation resolves only when the
\* complete event of its transaction has fired.
C21_Original ==
  [][(outer.fn \in Reads \cup Writes /\ outer.state = "pending"
      /\ outer'.state = "resolved") => txEvent = "complete"]_vars

\* C21, amended: the promise of a write resolves only when the complete event
\* of its transaction has fired; the promise of a read resolves when its
\* request has succeeded, which is before the complete event.
C21_WritesAwaitCompletion ==
  [][(outer.state = "pending" /\ outer'.state = "resolved") =>
       /\ outer.fn \in Writes => (txEvent = "complete" /\ tx = "none")
       /\ outer.fn \in Reads => (promise = "resolved" /\ tx = "active")]_vars

\* A write has resolved, after the complete event of its transaction.
C21_Witness ==
  /\ outer.fn \in Writes
  /\ outer.state = "resolved"
  /\ stage = "none"
  /\ txEvent = "complete"
  /\ promises[Len(promises)].kind = "commit"

\* The host owes the call an event, or a continuation of it is queued.
Due == Continuation \/ pc \notin {"idle", "done"} \/ tx = "active"

\* C30: a write that has not settled has an event or a continuation to come,
\* and the complete event of its transaction finds the handlers of commit()
\* registered.
C30_WritesSettle ==
  /\ (outer.fn \in Writes /\ outer.state = "pending") => Due
  /\ (stage = "commit" /\ tx = "none") =>
       promises[Len(promises)].state # "pending"

\* C31: once the complete or the abort event of the transaction has been
\* dispatched, every promise a commit() on the handler has returned is
\* settled, whenever the commit() was called and whatever was called on the
\* handler after it.
C31_CommitSettles ==
  (tx = "none" /\ txEvent \in {"complete", "abort"}) =>
    \A i \in DOMAIN promises :
      promises[i].kind = "commit" => promises[i].state # "pending"

\* C38: a getStore(name) is rejected with a StoreNotFoundError only for a
\* name outside the scope of the transaction.
C38_StoreNotFoundOnlyOutOfScope ==
  \A i \in DOMAIN promises :
    (promises[i].kind = "getStore" /\ promises[i].state = "rejected"
     /\ promises[i].error = StoreNotFoundError) =>
      promises[i].name \notin scope

\* C33: the connections an IndexedDBUtil has opened and not closed are one
\* at most.
C33_OneConnection == Cardinality(connections) <= 1

\* C32: a createDB whose open request was blocked creates no store, seeds no
\* record and opens no connection, whatever the host fires afterwards.
C32_BlockedCallHasNoEffect ==
  (call.fn = "createDB" /\ "blocked" \in fired) =>
    /\ result = NoHandle
    /\ \A n \in StoreNames :
         /\ db.stores[n].exists = dbBefore.stores[n].exists
         /\ db.stores[n].records = dbBefore.stores[n].records

\* C36: an updateObjectData that has resolved has left the store with as
\* many records, under the same keys, as it had, and with every record but
\* one as it was.
C36_UpdateFrame ==
  (op.name = "update" /\ promise = "resolved") =>
    /\ Cardinality(objs) = Cardinality(pre)
    /\ KeySet(objs) = KeySet(pre)
    /\ Cardinality(pre \ objs) <= 1

\* One record of several has been replaced.
C36_Witness ==
  /\ op.name = "update" /\ promise = "resolved"
  /\ Cardinality(pre) >= 2
  /\ Cardinality(pre \ objs) = 1

\* C39: a queryObjectData that names an index the store does not have has
\* returned a promise that is rejected with an IndexedDBError: nothing was
\* thrown to the caller, no cursor was opened and no record is handed over.
C39_MissingIndexRejects ==
  (op.name = "query" /\ ~(options.index = "" \/ options.index \in IndexNames))
    => /\ promise = "rejected"
       /\ error.name = "IndexedDBError"
       /\ pc = "done"
       /\ value = <<>>

\* The query of a store that holds records, by an index it does not have.
C39_Witness ==
  /\ op.name = "query" /\ options.index = MissingIndex
  /\ promise = "rejected" /\ pre # {}

\* C34: no step of a createDB call removes or changes a record that is in a
\* store; the records of a store before the step are records of it after.
C34_SeedingKeepsRecords ==
  [][open \notin {"none", "done"} =>
       \A n \in StoreNames :
         db.stores[n].records \subseteq db'.stores[n].records]_vars

\* A record was seeded, the application gave it another value, and the same
\* createDB call made again has resolved: the record has the value the
\* application gave it, not the seed record's.
C34_Witness ==
  /\ call.fn = "createDB" /\ repeat
  /\ open = "done" /\ dbPromise.state = "resolved"
  /\ \E i \in DOMAIN call.stores : \E j \in DOMAIN call.stores[i].data :
       \E r \in db.stores[call.stores[i].name].records :
         /\ call.stores[i].data[j].id # NoKey
         /\ r.id = call.stores[i].data[j].id
         /\ r # call.stores[i].data[j]

\* C35: a createDB call that resolves has seeded, upgrade or not: each seed
\* record with an id, of which the store had no record when the call was
\* made, is in the store when the promise resolves.
C35_SeedsOnEveryCall ==
  [][(call.fn = "createDB" /\ dbPromise.state = "pending"
      /\ dbPromise'.state = "resolved") =>
       \A i \in DOMAIN call.stores : \A j \in DOMAIN call.stores[i].data :
         LET item == call.stores[i].data[j]
             n == call.stores[i].name
         IN  (/\ item.id # NoKey
              /\ \A r \in dbBefore.stores[n].records : r.id # item.id)
               => item \in db'.stores[n].records]_vars

\* The same call made again, without an upgrade, has put back a seed record
\* that was deleted after the first call.
C35_Witness ==
  /\ call.fn = "createDB" /\ repeat
  /\ "upgradeneeded" \notin fired
  /\ open = "done" /\ dbPromise.state = "resolved"
  /\ \E i \in DOMAIN call.stores : \E j \in DOMAIN call.stores[i].data :
       LET item == call.stores[i].data[j]
           n == call.stores[i].name
       IN  /\ item.id # NoKey
           /\ \A r \in dbBefore.stores[n].records : r.id # item.id
           /\ item \in db.stores[n].records


\* The calls of add that got a transaction.
AddCalls == {c \in Callers : adds.call[c].tx # "none"}
\* Two records have distinct primary keys: both carry an id and the ids
\* differ, or neither does and the key generator hands out the keys.
DistinctKeys(r, q) ==
  \/ r.id # NoKey /\ q.id # NoKey /\ r.id # q.id
  \/ r.id = NoKey /\ q.id = NoKey
\* The records handed to the calls have distinct primary keys.
DistinctAdds ==
  \A c, d \in AddCalls :
    c # d => DistinctKeys(adds.call[c].data, adds.call[d].data)
\* The records handed to the calls differ in the unique index 'email'.
DistinctEmails ==
  \A c, d \in AddCalls :
    c # d => adds.call[c].data.email # adds.call[d].data.email
\* A record of data is among rs, under data's id or a generated key.
Holds(rs, data) ==
  \E r \in rs : /\ r.email = data.email /\ r.age = data.age
                /\ data.id # NoKey => r.id = data.id
\* Something is left to run for the calls: a continuation, the start of a
\* transaction or an event of the host.
AddDue ==
  \/ adds.jobs # <<>>
  \/ \E c \in Callers :
       \/ adds.call[c].tx = "created" /\ IDBTransaction_mayStart(c)
       \/ adds.call[c].tx = "aborting"
       \/ adds.call[c].tx = "started"
          /\ adds.call[c].stage \in {"add", "getAll", "commit"}
\* Call d's transaction was started after call c's.
RanAfter(d, c) ==
  \E i, j \in DOMAIN adds.ran :
    i < j /\ adds.ran[i] = c /\ adds.ran[j] = d
\* No call is rejected, every call has resolved once nothing is left to
\* run, the store then holds the record of every call, and a call whose
\* transaction ran after another's has that one's record in its result.
AddsAllSucceed ==
  /\ \A c \in AddCalls : adds.call[c].state # "rejected"
  /\ ~AddDue =>
       \A c \in AddCalls : /\ adds.call[c].state = "resolved"
                           /\ Holds(objs, adds.call[c].data)
  /\ \A c, d \in AddCalls :
       (RanAfter(d, c) /\ adds.call[d].state = "resolved")
         => Holds(Elems(adds.call[d].result), adds.call[c].data)

\* C37 as stated: calls of add in flight together with distinct primary
\* keys all resolve, the store ends up with every record, and the result
\* of a call whose transaction ran later holds the records of the earlier.
C37_Original == DistinctAdds => AddsAllSucceed

\* C37: calls of add in flight together, with distinct primary keys and
\* distinct values of the unique index 'email', are never rejected and
\* have all resolved once nothing is left to run; the store then holds the
\* record of every call, and the result of a call whose transaction ran
\* after another's holds that one's record.
C37_ConcurrentAdds == (DistinctAdds /\ DistinctEmails) => AddsAllSucceed

\* Two calls were in flight together, both have resolved, and the result
\* of the second holds the record of the first.
C37_Witness ==
  /\ DistinctAdds /\ DistinctEmails
  /\ adds.ran = <<1, 2>>
  /\ adds.call[1].state = "resolved" /\ adds.call[2].state = "resolved"
  /\ Holds(Elems(adds.call[2].result), adds.call[1].data)
  /\ Len(adds.call[1].result) = 1
  /\ Holds(objs, adds.call[1].data) /\ Holds(objs, adds.call[2].data)

=============================================================================
